---- MODULE Spec2Model ----
(***************************************************************************)
(* A model of teleslurp: the filter engine (package filter), the message   *)
(* store (package database), the monitor's update handler, identity        *)
(* resolution and the channel crawl (package telegram).                    *)
(*                                                                         *)
(* Strings are sequences of one-character strings, so that splitting,      *)
(* trimming, lower-casing, substring search and decimal formatting are     *)
(* computed as the Go code computes them.                                  *)
(***************************************************************************)
EXTENDS Integers, Sequences, FiniteSets, TLC

VARIABLES
    \* ---- package database: the tables
    message_filters,   \* rows of table message_filters, in rowid order
    messages,          \* rows of table messages, in rowid order
    saveLog,           \* history: the arguments of every SaveMessage call, in order
    lastErr,           \* the error the last command / database call returned
    \* ---- package filter: FilterManager
    fmFilters,         \* fm.filters
    fmLoaded,          \* LoadFilters has run
    verdict,           \* the last ProcessMessage call and what it returned
    \* ---- package telegram: the monitor
    mode,              \* which monitor runs: "MonitorAndForward" or "MonitorChannels"
    monState,          \* "Idle", "Listening", "AuthFailed" or "Returned"
    updates,           \* history: the updates handed to the handler, in arrival order
    h,                 \* the running handler: its position and its locals
    calls,             \* history: the backend calls the handler issued, in order
    \* ---- package telegram: identity resolution
    resolved,          \* the last resolution: the request, the answer, the result
    \* ---- package telegram: the crawl (Client.Run)
    groups,            \* the channel list of the run
    groupIdx,          \* the index of the channel being crawled
    cpc,               \* the position of the crawl in the channel
    result,            \* the ChannelSearchResult and searchMessages locals of the channel
    allMessages,       \* allMessages
    allMetadata,       \* allMetadata
    crawlLog,          \* history: the backend calls and sleeps of the crawl, in order
    \* ---- package commands: runMonitor
    rm,                \* the position, the configuration and the locals of runMonitor
    \* ---- package commands / package telegram: the export of a search
    ex,                \* the flags of the search command, what Run found, the files written
    \* ---- package telegram: the searched user's identity through Client.Run
    run                \* searchUser, userID, userAccessHash, the position, the calls made

filterVars == <<message_filters, fmFilters, fmLoaded, verdict>>
storeVars == <<messages, saveLog>>
monVars == <<mode, monState, updates, h, calls>>
crawlVars == <<groups, groupIdx, cpc, result, allMessages, allMetadata, crawlLog>>

vars == <<filterVars, storeVars, monVars, resolved, crawlVars, rm, ex, run, lastErr>>

(***************************************************************************)
(* Strings                                                                 *)
(***************************************************************************)
Digits == <<"0", "1", "2", "3", "4", "5", "6", "7", "8", "9">>

IsDigit(c) == \E i \in 1..10 : Digits[i] = c

DigitVal(c) == (CHOOSE i \in 1..10 : Digits[i] = c) - 1

UpperToLower == [c \in {"S", "P", "A", "M", "H"} |->
                    CASE c = "S" -> "s" [] c = "P" -> "p" [] c = "A" -> "a"
                      [] c = "M" -> "m" [] c = "H" -> "h"]

\* strings.ToLower
ToLower(s) == [i \in 1..Len(s) |->
                 IF s[i] \in DOMAIN UpperToLower THEN UpperToLower[s[i]] ELSE s[i]]

\* strings.Contains
Contains(s, sub) ==
    \E i \in 0..(Len(s) - Len(sub)) : SubSeq(s, i + 1, i + Len(sub)) = sub

\* strings.TrimSpace
RECURSIVE TrimLeft(_)
TrimLeft(s) == IF s # <<>> /\ Head(s) = " " THEN TrimLeft(Tail(s)) ELSE s

RECURSIVE TrimRight(_)
TrimRight(s) == IF s # <<>> /\ s[Len(s)] = " "
                THEN TrimRight(SubSeq(s, 1, Len(s) - 1)) ELSE s

TrimSpace(s) == TrimRight(TrimLeft(s))

\* strings.Split(s, ","): always at least one field
RECURSIVE SplitFrom(_, _)
SplitFrom(s, cur) ==
    IF s = <<>> THEN <<cur>>
    ELSE IF Head(s) = "," THEN <<cur>> \o SplitFrom(Tail(s), <<>>)
    ELSE SplitFrom(Tail(s), Append(cur, Head(s)))

Split(s) == SplitFrom(s, <<>>)

\* strings.Join(parts, ",")
RECURSIVE Join(_)
Join(parts) ==
    IF parts = <<>> THEN <<>>
    ELSE IF Len(parts) = 1 THEN parts[1]
    ELSE parts[1] \o <<",">> \o Join(Tail(parts))

\* fmt.Sprintf("%d", n)
RECURSIVE ItoaNat(_)
ItoaNat(n) == IF n < 10 THEN <<Digits[n + 1]>>
              ELSE Append(ItoaNat(n \div 10), Digits[(n % 10) + 1])

Itoa(n) == IF n < 0 THEN <<"-">> \o ItoaNat(-n) ELSE ItoaNat(n)

RECURSIVE DigitsVal(_, _)
DigitsVal(s, acc) == IF s = <<>> THEN acc
                     ELSE DigitsVal(Tail(s), acc * 10 + DigitVal(Head(s)))

AllDigits(s) == s # <<>> /\ \A i \in 1..Len(s) : IsDigit(s[i])

\* strconv.Atoi / strconv.ParseInt(s, 10, 64): an optional sign, then digits only
ParseInt(s) ==
    LET signed == s # <<>> /\ Head(s) \in {"+", "-"}
        body   == IF signed THEN Tail(s) ELSE s
    IN  IF AllDigits(body)
        THEN [ok |-> TRUE,
              val |-> IF signed /\ Head(s) = "-" THEN -DigitsVal(body, 0)
                                                ELSE DigitsVal(body, 0)]
        ELSE [ok |-> FALSE, val |-> 0]

\* the longest prefix of digits
RECURSIVE DigitPrefix(_)
DigitPrefix(s) == IF s # <<>> /\ IsDigit(Head(s))
                  THEN <<Head(s)>> \o DigitPrefix(Tail(s)) ELSE <<>>

\* fmt.Sscanf(pattern, "%d", &length): leading spaces skipped, an optional sign,
\* then the digits up to the first other character; length stays 0 on failure
parseMinLength(pattern) ==
    LET t      == TrimLeft(pattern)
        signed == t # <<>> /\ Head(t) \in {"+", "-"}
        body   == DigitPrefix(IF signed THEN Tail(t) ELSE t)
    IN  IF body = <<>> THEN 0
        ELSE IF signed /\ Head(t) = "-" THEN -DigitsVal(body, 0)
        ELSE DigitsVal(body, 0)

\* parseInt64List: the fields that parse, in order
RECURSIVE ParseFields(_)
ParseFields(parts) ==
    IF parts = <<>> THEN <<>>
    ELSE LET r == ParseInt(TrimSpace(Head(parts)))
         IN  (IF r.ok THEN <<r.val>> ELSE <<>>) \o ParseFields(Tail(parts))

parseInt64List(pattern) == ParseFields(Split(pattern))

\* ids formatted with %d and joined with ","
FormatIDs(ids) == Join([i \in 1..Len(ids) |-> Itoa(ids[i])])

(***************************************************************************)
(* Bounds and input sets                                                   *)
(***************************************************************************)
MaxFilters == 2     \* rows the filter commands may insert

spam == <<"s", "p", "a", "m">>

\* what the add-filter command is run with: <<type, pattern, action, priority>>
AddInputs ==
    ({"keyword"} \X {spam} \X {"ignore", "highlight", "forward"} \X {1, 10})
    \cup {
      <<"keyword", <<" ", "S", "p", "a", "m", ",", "h", "a", "m">>, "ignore", 1>>,
      <<"regex", <<"p", "a">>, "highlight", 10>>,
      <<"regex", <<"(", "a">>, "ignore", 5>>,
      <<"user", <<"7", ",", "x", ",", " ", "+", "8">>, "ignore", 5>>,
      <<"channel", <<"1", "0", "0">>, "highlight", 5>>,
      <<"length", <<"5">>, "ignore", 1>>,
      <<"length", <<"5", "x">>, "ignore", 1>>,
      <<"media", <<"1">>, "ignore", 5>>,
      <<"keyword", spam, "drop", 5>>
    }

\* message bodies, channel ids and user ids a message is evaluated with
Bodies == { <<>>, spam, <<"S", "P", "A", "M">>, <<"h", "a", "m">>,
            <<"a", " ", "s", "p", "a", "m", "!">> }

EvalChannels == {100, 300}
EvalUsers == {7, 8}

(***************************************************************************)
(* package database: table message_filters                                 *)
(***************************************************************************)
\* INSERT INTO message_filters (name, pattern, type, action, priority):
\* id is the autoincrement rowid, enabled defaults to 1
AddMessageFilter(table, pattern, filterType, action, priority) ==
    Append(table, [ID |-> Len(table) + 1, Pattern |-> pattern, Type |-> filterType,
                   Action |-> action, Priority |-> priority, enabled |-> TRUE])

\* UPDATE message_filters SET enabled = 0 WHERE id = ?
DisableFilter(table, filterID) ==
    [i \in 1..Len(table) |->
        IF table[i].ID = filterID THEN [table[i] EXCEPT !.enabled = FALSE] ELSE table[i]]

\* UPDATE message_filters SET enabled = 1 WHERE id = ?
EnableFilter(table, filterID) ==
    [i \in 1..Len(table) |->
        IF table[i].ID = filterID THEN [table[i] EXCEPT !.enabled = TRUE] ELSE table[i]]

\* SELECT ... WHERE enabled = 1, without the ORDER BY clause
GetActiveFilters_Unordered(table) ==
    LET on == {i \in 1..Len(table) : table[i].enabled}
        n  == Cardinality(on)
    IN  { [k \in 1..n |-> table[p[k]]] :
            p \in { q \in [1..n -> on] : \A a, b \in 1..n : a # b => q[a] # q[b] } }

\* SELECT ... WHERE enabled = 1 ORDER BY priority DESC: every ordering of the
\* enabled rows that is non-increasing in priority (SQL fixes no order among
\* rows of equal priority)
GetActiveFilters(table) ==
    LET on == {i \in 1..Len(table) : table[i].enabled}
        n  == Cardinality(on)
    IN  { [k \in 1..n |-> table[p[k]]] :
            p \in { q \in [1..n -> on] :
                      /\ \A a, b \in 1..n : a # b => q[a] # q[b]
                      /\ \A a, b \in 1..n :
                            a < b => table[q[a]].Priority >= table[q[b]].Priority } }

(***************************************************************************)
(* package filter                                                          *)
(***************************************************************************)
\* regexp.Compile on the patterns used here: letters, digits, spaces and
\* commas are literals; an unclosed "(" does not compile
RegexCompiles(pattern) == \A i \in 1..Len(pattern) : pattern[i] # "("

\* the filter value LoadFilters builds from one row; <<>> where the row adds none
FilterOf(f) ==
    CASE f.Type = "keyword" ->
           <<[kind |-> "keyword", Keywords |-> Split(f.Pattern), Pattern |-> <<>>,
              MinLength |-> 0, Action |-> f.Action]>>
      [] f.Type = "regex" ->
           IF RegexCompiles(f.Pattern)
           THEN <<[kind |-> "regex", Keywords |-> <<>>, Pattern |-> f.Pattern,
                   MinLength |-> 0, Action |-> f.Action]>>
           ELSE <<>>
      [] f.Type = "user" ->
           <<[kind |-> "user", Keywords |-> <<>>, Pattern |-> f.Pattern,
              MinLength |-> 0, Action |-> f.Action]>>
      [] f.Type = "channel" ->
           <<[kind |-> "channel", Keywords |-> <<>>, Pattern |-> f.Pattern,
              MinLength |-> 0, Action |-> f.Action]>>
      [] f.Type = "length" ->
           <<[kind |-> "length", Keywords |-> <<>>, Pattern |-> <<>>,
              MinLength |-> parseMinLength(f.Pattern), Action |-> f.Action]>>
      [] OTHER -> <<>>

\* the loop of LoadFilters over the rows GetActiveFilters returned
RECURSIVE BuildFilters(_)
BuildFilters(dbFilters) ==
    IF dbFilters = <<>> THEN <<>>
    ELSE FilterOf(Head(dbFilters)) \o BuildFilters(Tail(dbFilters))

\* the comma-separated id list of a UserFilter / ChannelFilter holds id
IDListHolds(list, id) ==
    LET ids == Split(list)
    IN  \E i \in 1..Len(ids) : TrimSpace(ids[i]) = Itoa(id)

\* the predicate of each filter kind: whether the rule matches the message
Matches(f, message, channelID, userID) ==
    CASE f.kind = "keyword" ->
           \E i \in 1..Len(f.Keywords) :
               Contains(ToLower(message), ToLower(TrimSpace(f.Keywords[i])))
      [] f.kind = "regex"   -> Contains(message, f.Pattern)
      [] f.kind = "user"    -> IDListHolds(f.Pattern, userID)
      [] f.kind = "channel" -> IDListHolds(f.Pattern, channelID)
      [] f.kind = "length"  -> Len(message) >= f.MinLength

\* ShouldProcess of every filter kind: (true, f.Action) on a match, (false, "")
ShouldProcess(f, message, channelID, userID) ==
    IF Matches(f, message, channelID, userID) THEN <<TRUE, f.Action>> ELSE <<FALSE, "">>

\* FilterManager.ProcessMessage
\* a manager that drops a message no filter decided
ForwardByDefault_Ignored == <<FALSE, "ignored">>

\* what ProcessMessage returns when no filter decided: the return after the loop
ForwardByDefault == <<TRUE, "forward">>

RECURSIVE ProcessMessage(_, _, _, _)
ProcessMessage(filters, message, channelID, userID) ==
    IF filters = <<>> THEN ForwardByDefault
    ELSE LET r             == ShouldProcess(Head(filters), message, channelID, userID)
             shouldProcess == r[1]
             action        == r[2]
         IN  IF action = "ignore" /\ ~shouldProcess THEN <<FALSE, "ignored">>
             ELSE IF action = "highlight" /\ shouldProcess THEN <<TRUE, "highlight">>
             ELSE ProcessMessage(Tail(filters), message, channelID, userID)

(***************************************************************************)
(* package commands: the filter commands                                   *)
(***************************************************************************)
\* a set of types that is not closed
validTypes_Open == {"keyword", "regex", "user", "channel", "length", "media"}

validTypes == {"keyword", "regex", "user", "channel", "length"}
validActions == {"forward", "ignore", "highlight"}

\* filter.AddRegexFilter without the validation of the pattern
AddRegexFilter_Unchecked(table, pattern, action, priority) ==
    [table |-> AddMessageFilter(table, pattern, "regex", action, priority), err |-> "nil"]

\* filter.AddRegexFilter: the pattern is compiled before the row is inserted
AddRegexFilter(table, pattern, action, priority) ==
    IF RegexCompiles(pattern)
    THEN [table |-> AddMessageFilter(table, pattern, "regex", action, priority),
          err |-> "nil"]
    ELSE [table |-> table, err |-> "invalid regex pattern"]

\* runAddFilter: the table after the command and the error it returns
runAddFilter(table, filterType, filterPattern, filterAction, filterPriority) ==
    IF filterType \notin validTypes
    THEN [table |-> table, err |-> "invalid filter type"]
    ELSE IF filterAction \notin validActions
    THEN [table |-> table, err |-> "invalid action"]
    ELSE CASE filterType = "keyword" ->
                [table |-> AddMessageFilter(table, Join(Split(filterPattern)), "keyword",
                                            filterAction, filterPriority),
                 err |-> "nil"]
           [] filterType = "regex" ->
                AddRegexFilter(table, filterPattern, filterAction, filterPriority)
           [] filterType \in {"user", "channel"} ->
                [table |-> AddMessageFilter(table, FormatIDs(parseInt64List(filterPattern)),
                                            filterType, filterAction, filterPriority),
                 err |-> "nil"]
           [] filterType = "length" ->
                LET r == ParseInt(filterPattern)
                IN  IF r.ok
                    THEN [table |-> AddMessageFilter(table, Itoa(r.val), "length",
                                                     filterAction, filterPriority),
                          err |-> "nil"]
                    ELSE [table |-> table, err |-> "invalid length value"]
           [] OTHER -> [table |-> table, err |-> "nil"]

(***************************************************************************)
(* package database: table messages                                        *)
(***************************************************************************)
MaxSaves == 3       \* SaveMessage calls in one run

NewRow(channelID, channelTitle, channelUsername, messageID, date, message, url) ==
    [channel_id |-> channelID, channel_title |-> channelTitle,
     channel_username |-> channelUsername, message_id |-> messageID,
     date |-> date, message |-> message, url |-> url]

\* UNIQUE(channel_id, message_id): the rows the new row conflicts with
Conflicts(table, channelID, messageID) ==
    {i \in 1..Len(table) :
        table[i].channel_id = channelID /\ table[i].message_id = messageID}

\* INSERT OR REPLACE in place of INSERT OR IGNORE: the conflicting row is replaced
SaveMessage_Replace(table, channelID, channelTitle, channelUsername, messageID, date, message, url) ==
    LET keep == SelectSeq(table, LAMBDA r : ~(r.channel_id = channelID
                                              /\ r.message_id = messageID))
    IN  Append(keep, NewRow(channelID, channelTitle, channelUsername, messageID,
                            date, message, url))

\* DB.SaveMessage: INSERT OR IGNORE INTO messages; a conflicting row is skipped
SaveMessage(table, channelID, channelTitle, channelUsername, messageID, date, message, url) ==
    IF Conflicts(table, channelID, messageID) # {}
    THEN table
    ELSE Append(table, NewRow(channelID, channelTitle, channelUsername, messageID,
                              date, message, url))

(***************************************************************************)
(* package telegram: the monitor's update handler                          *)
(*                                                                         *)
(* MonitorAndForward and MonitorChannels register the same handler on an   *)
(* update dispatcher; they differ in the peer the handler sends to.  The   *)
(* dispatcher hands the handler one update at a time.                      *)
(***************************************************************************)
MaxEvents == 2      \* updates the backend pushes in one run

ChunkLimit == 524288

ForwardedFrom ==
    <<"\n", "\n", "F", "o", "r", "w", "a", "r", "d", "e", "d", " ", "f", "r", "o", "m",
      ":", " ">>

ProtectedContent ==
    <<"\n", "\n", "[", "P", "r", "o", "t", "e", "c", "t", "e", "d", " ", "C", "o", "n",
      "t", "e", "n", "t", "]", " ", "O", "r", "i", "g", "i", "n", "a", "l", "l", "y",
      " ", "p", "o", "s", "t", "e", "d", " ", "i", "n", ":", " ">>

PhotoNotice ==
    <<"\n", "[", "P", "h", "o", "t", "o", " ", "w", "a", "s", " ", "i", "n", " ", "o",
      "r", "i", "g", "i", "n", "a", "l", " ", "m", "e", "s", "s", "a", "g", "e", " ",
      "b", "u", "t", " ", "c", "a", "n", "n", "o", "t", " ", "b", "e", " ", "f", "o",
      "r", "w", "a", "r", "d", "e", "d", " ", "d", "u", "e", " ", "t", "o", " ", "c",
      "o", "n", "t", "e", "n", "t", " ", "p", "r", "o", "t", "e", "c", "t", "i", "o",
      "n", "]">>

\* the run's arguments: the monitored source channels and the target channel
sourceChannelIDs == {100, 101, 102}
targetChannelID == 200

\* the backend's channels: what ChannelsGetFullChannel answers as Chats[0].
\* isChannel: Chats[0] is a *tg.Channel (otherwise another ChatClass, such as a
\* *tg.ChannelForbidden, which has a title and no noforwards flag)
ChanInfo(channelID) ==
    CASE channelID = 100 ->
           [isChannel |-> TRUE, Title |-> <<"T">>, Noforwards |-> FALSE]
      [] channelID = 101 ->
           [isChannel |-> TRUE, Title |-> <<"P">>, Noforwards |-> TRUE]
      [] OTHER ->
           [isChannel |-> FALSE, Title |-> <<"X">>, Noforwards |-> FALSE]

\* the media an update's message carries: <<kind, size of the photo in bytes>>
MediaShapes == { <<"none", 0>>, <<"photo", 1000>>, <<"photo", 524288>>,
                 <<"photo", 600000>>, <<"document", 0>>, <<"other", 0>> }

Update(kind, peer, channelID, id, body, media) ==
    [kind |-> kind, peer |-> peer, channelID |-> channelID, ID |-> id,
     Message |-> body, Media |-> media[1], size |-> media[2]]

\* the updates the backend may push
Updates ==
    { Update("message", "channel", 100, 42, spam, m) : m \in MediaShapes }
    \cup { Update("message", "channel", 101, 42, spam, <<m, 1000>>) :
             m \in {"none", "photo", "other"} }
    \cup { Update("message", "channel", 100, 43, <<"h", "a", "m">>, <<"none", 0>>),
           Update("message", "channel", 102, 42, spam, <<"photo", 1000>>),
           Update("message", "channel", 300, 42, spam, <<"none", 0>>),
           Update("message", "user", 100, 42, spam, <<"none", 0>>),
           Update("service", "channel", 100, 44, <<>>, <<"none", 0>>) }

\* rand.Int63() for the file id of an upload
FileIDs == {11, 12}

\* the attribution appended to the message text
Attribution(isProtected, channelTitle) ==
    IF isProtected THEN ProtectedContent \o channelTitle
    ELSE ForwardedFrom \o channelTitle

\* the peer the handler sends to: MonitorAndForward sends to the target channel,
\* MonitorChannels builds the peer from the channel the message arrived on
TargetPeer(m, channelID) ==
    IF m = "MonitorAndForward" THEN targetChannelID ELSE channelID

\* the media switch without the isProtected test in the photo case
MediaBranch_NoProtection(media, isProtected) ==
    CASE media = "none" -> "sendText"
      [] media = "photo" -> "download"
      [] media = "document" -> "idle"
      [] OTHER -> "sendText"

\* the branch of the media switch: the handler's next position
MediaBranch(media, isProtected) ==
    CASE media = "none" -> "sendText"
      [] media = "photo" -> IF isProtected THEN "sendProtected" ELSE "download"
      [] media = "document" -> "idle"
      [] OTHER -> "sendText"

HandlerIdle ==
    [pc |-> "idle", channelTitle |-> <<>>, isProtected |-> FALSE, messageText |-> <<>>,
     chunks |-> <<>>, offset |-> 0, fileID |-> 0, part |-> 0]

\* a handler that falls back to the text-only send when the relay fails
AfterRelayError_Fallback == "sendText"

\* where the handler goes when a download, an upload or the media send fails:
\* it prints the error and returns nil
AfterRelayError == "idle"

\* the handler after such a failure
RelayFailed(hh) ==
    IF AfterRelayError = "idle" THEN HandlerIdle ELSE [hh EXCEPT !.pc = AfterRelayError]

\* the entry checks of the handler without the test of the channel map
ShouldHandle_AnyChannel(update) ==
    /\ update.kind = "message"
    /\ update.peer = "channel"

\* the entry checks of the handler: the update carries a *tg.Message, its peer
\* is a channel, and the channel is in the map of monitored channels
ShouldHandle(update) ==
    /\ update.kind = "message"
    /\ update.peer = "channel"
    /\ update.channelID \in sourceChannelIDs

\* a monitor that goes on to its main loop whatever authenticate returned
AfterAuthenticate_Ignored(authorized) == "Listening"

\* `if err := c.authenticate(ctx); err != nil { return ... }`: the monitor goes
\* on to its main loop only when the session is authorized
AfterAuthenticate(authorized) == IF authorized THEN "Listening" ELSE "AuthFailed"

\* updates reach the handler after the monitor has returned, too
Dispatching_AfterReturn(state) == state \in {"Listening", "Returned"}

\* updates reach the handler while the monitor waits in its main loop, from
\* the authentication until the wait on ctx.Done() ends and it returns
Dispatching(state) == state = "Listening"

\* a download loop that stops only at an empty chunk
LastChunk_Empty(n) == n = 0

\* `if len(data.Bytes) < 524288 { break }`: the chunk ends the download loop
LastChunk(n) == n < ChunkLimit

\* the bytes UploadGetFile returns at offset for a photo of size bytes
ChunkLen(size, offset) ==
    IF size - offset >= ChunkLimit THEN ChunkLimit
    ELSE IF size - offset > 0 THEN size - offset
    ELSE 0

(***************************************************************************)
(* package telegram: identity resolution                                   *)
(***************************************************************************)
\* the longest answer of the backend's resolve call
MaxCandidates == 2

alice == <<"a","l","i","c","e">>
bob == <<"b","o","b">>
tech == <<"t","e","c","h">>
quiet == <<"q">>
gone == <<"g","o","n","e">>

TrimPrefix(s, c) == IF s # <<>> /\ Head(s) = c THEN Tail(s) ELSE s

\* all sequences over S of length at most n
SeqsUpTo(S, n) == UNION {[1..k -> S] : k \in 0..n}

\* an entry of resolvedPeer.Users: a *tg.User or another UserClass
UserPool ==
    { [isUser |-> TRUE,  ID |-> 1, Username |-> alice, AccessHash |-> 11],
      [isUser |-> TRUE,  ID |-> 2, Username |-> alice, AccessHash |-> 22],
      [isUser |-> TRUE,  ID |-> 3, Username |-> bob,   AccessHash |-> 33],
      [isUser |-> FALSE, ID |-> 4, Username |-> alice, AccessHash |-> 0] }

\* an entry of resolvedPeer.Chats: a *tg.Channel or another ChatClass
ChatPool ==
    { [isChannel |-> TRUE,  ID |-> 501, Username |-> tech, AccessHash |-> 51],
      [isChannel |-> TRUE,  ID |-> 502, Username |-> tech, AccessHash |-> 52],
      [isChannel |-> FALSE, ID |-> 503, Username |-> tech, AccessHash |-> 0] }

\* the users the resolve call is made for: by handle, or by id alone
SearchUsers ==
    { [Username |-> alice, ID |-> 0],
      [Username |-> bob,   ID |-> 0],
      [Username |-> <<>>,  ID |-> 5] }

\* the channels of a group list: by handle (with or without @), or by id
SearchChannels ==
    { [Username |-> tech,          ID |-> 0],
      [Username |-> <<"@">> \o tech, ID |-> 0],
      [Username |-> <<>>,          ID |-> 900] }

\* the answers of ContactsResolveUsername
UserAnswers ==
    {[err |-> "rpc", Users |-> <<>>, Chats |-> <<>>]} \cup
    {[err |-> "nil", Users |-> us, Chats |-> <<>>] : us \in SeqsUpTo(UserPool, MaxCandidates)}

ChatAnswers ==
    {[err |-> e, Users |-> <<>>, Chats |-> <<>>] : e \in {"rpc", "USERNAME_NOT_OCCUPIED"}} \cup
    {[err |-> "nil", Users |-> <<>>, Chats |-> cs] : cs \in SeqsUpTo(ChatPool, MaxCandidates)}

\* the loop over resolvedUser.Users, picking the last match instead
RECURSIVE FirstUser_Last(_, _)
FirstUser_Last(users, username) ==
    IF users = <<>> THEN [found |-> FALSE]
    ELSE LET u == users[Len(users)]
         IN IF u.isUser /\ u.Username = username
            THEN [found |-> TRUE, ID |-> u.ID, AccessHash |-> u.AccessHash]
            ELSE FirstUser_Last(SubSeq(users, 1, Len(users) - 1), username)

\* the loop over resolvedUser.Users
RECURSIVE FirstUser(_, _)
FirstUser(users, username) ==
    IF users = <<>> THEN [found |-> FALSE]
    ELSE LET u == Head(users)
         IN IF u.isUser /\ u.Username = username
            THEN [found |-> TRUE, ID |-> u.ID, AccessHash |-> u.AccessHash]
            ELSE FirstUser(Tail(users), username)

\* resolveUser with no access hash for a user given by id alone
resolveUser_NoPlaceholder(searchUser, answer) ==
    IF searchUser.Username # <<>>
    THEN IF answer.err # "nil"
         THEN [ID |-> 0, AccessHash |-> 0, err |-> "error resolving username"]
         ELSE LET u == FirstUser(answer.Users, searchUser.Username)
              IN IF u.found
                 THEN [ID |-> u.ID, AccessHash |-> u.AccessHash, err |-> "nil"]
                 ELSE [ID |-> 0, AccessHash |-> 0, err |-> "could not find user"]
    ELSE [ID |-> searchUser.ID, AccessHash |-> 0, err |-> "nil"]

\* resolveUser: the answer is consulted only when the user has a handle
resolveUser(searchUser, answer) ==
    IF searchUser.Username # <<>>
    THEN IF answer.err # "nil"
         THEN [ID |-> 0, AccessHash |-> 0, err |-> "error resolving username"]
         ELSE LET u == FirstUser(answer.Users, searchUser.Username)
              IN IF u.found
                 THEN [ID |-> u.ID, AccessHash |-> u.AccessHash, err |-> "nil"]
                 ELSE [ID |-> 0, AccessHash |-> 0, err |-> "could not find user"]
    ELSE [ID |-> searchUser.ID, AccessHash |-> searchUser.ID, err |-> "nil"]

\* the loop over resolvedPeer.Chats: the first *tg.Channel
RECURSIVE FirstChannel(_)
FirstChannel(chats) ==
    IF chats = <<>> THEN [ID |-> 0, AccessHash |-> 0]
    ELSE IF Head(chats).isChannel
         THEN [ID |-> Head(chats).ID, AccessHash |-> Head(chats).AccessHash]
         ELSE FirstChannel(Tail(chats))

\* the head of searchChannel: the channel id and access hash of a group
resolveChannel(channel, answer) ==
    IF channel.Username # <<>>
    THEN IF answer.err # "nil"
         THEN [ID |-> 0, AccessHash |-> 0,
               err |-> IF answer.err = "USERNAME_NOT_OCCUPIED"
                       THEN "channel not found" ELSE "could not find channel"]
         ELSE IF Len(answer.Chats) = 0
              THEN [ID |-> 0, AccessHash |-> 0, err |-> "could not find channel"]
              ELSE LET ch == FirstChannel(answer.Chats)
                   IN IF ch.ID = 0
                      THEN [ID |-> 0, AccessHash |-> 0, err |-> "could not find channel"]
                      ELSE [ID |-> ch.ID, AccessHash |-> ch.AccessHash, err |-> "nil"]
    ELSE [ID |-> channel.ID, AccessHash |-> channel.ID, err |-> "nil"]

(***************************************************************************)
(* package telegram: the crawl (Client.Run, searchChannel, searchMessages) *)
(*                                                                         *)
(* The backend is a fixed world of channels; each holds the searched       *)
(* user's messages newest first and serves a search by offset.  A call     *)
(* that goes over the wire may fail at any time.                           *)
(***************************************************************************)
\* the longest channel list of a run
MaxGroups == 3
\* the Limit of a search request (100 in searchMessages), scaled down; the
\* loop compares the length of a page with the same number
PageSize == 2
\* the pauses after a page and after a channel, in milliseconds
PageSleep == 500
ChannelSleep == 2000

\* a *tg.User among the admins of a channel
Admin(username, first, last) == [Username |-> username, FirstName |-> first, LastName |-> last]

\* the backend's channels, by id
Backend(channelID) ==
    CASE channelID = 501 ->
            [known |-> TRUE, Title |-> "Tech", Username |-> tech, restricted |-> FALSE,
             ParticipantsCount |-> 120, Admins |-> <<Admin(<<"r","o","o","t">>, <<"R">>, <<>>), Admin(<<>>, <<"A","n","n">>, <<"L","e","e">>)>>,
             N |-> 2 * PageSize + 1]
      [] channelID = 900 ->
            [known |-> TRUE, Title |-> "Priv", Username |-> <<>>, restricted |-> TRUE,
             ParticipantsCount |-> 7, Admins |-> <<Admin(<<"o","w","n">>, <<"O">>, <<"W">>)>>,
             N |-> 2 * PageSize]
      [] channelID = 504 ->
            [known |-> TRUE, Title |-> "Quiet", Username |-> quiet, restricted |-> FALSE,
             ParticipantsCount |-> 3, Admins |-> <<>>,
             N |-> 0]
      [] OTHER ->
            [known |-> FALSE, Title |-> "", Username |-> <<>>, restricted |-> TRUE,
             ParticipantsCount |-> 0, Admins |-> <<>>,
             N |-> 0]

\* the backend's answer to ContactsResolveUsername for a channel handle
Directory(username) ==
    CASE username = tech ->
            [err |-> "nil", Users |-> <<>>,
             Chats |-> <<[isChannel |-> TRUE, ID |-> 501, Username |-> tech, AccessHash |-> 51]>>]
      [] username = quiet ->
            [err |-> "nil", Users |-> <<>>,
             Chats |-> <<[isChannel |-> TRUE, ID |-> 504, Username |-> quiet, AccessHash |-> 54]>>]
      [] OTHER -> [err |-> "USERNAME_NOT_OCCUPIED", Users |-> <<>>, Chats |-> <<>>]

\* the channel list entries (types.Group)
GroupPool ==
    { [Username |-> <<"@">> \o tech, ID |-> 0,   Title |-> "Tech"],
      [Username |-> <<>>,            ID |-> 900, Title |-> "Priv"],
      [Username |-> quiet,           ID |-> 0,   Title |-> "Quiet"],
      [Username |-> gone,            ID |-> 0,   Title |-> "Gone"] }

\* channel lists: every entry a different channel
GroupLists ==
    {gs \in SeqsUpTo(GroupPool, MaxGroups) :
        \A i, j \in 1..Len(gs) : gs[i] = gs[j] => i = j}

\* the p-th newest entry of the user's history in a channel: a *tg.Message,
\* or (the second) a *tg.MessageService; dates do not fall monotonically
HistoryEntry(p) ==
    [isMessage |-> p # 2, ID |-> 100 - p,
     Date |-> 1000 - 10 * p + (IF p % 2 = 1 THEN 15 ELSE 0)]

\* msgs.Messages of the answer to a search at an offset
Page(channelID, offset) ==
    LET N == Backend(channelID).N
        last == IF offset + PageSize < N THEN offset + PageSize ELSE N
    IN [i \in 1..(IF last > offset THEN last - offset ELSE 0) |-> HistoryEntry(offset + i)]

\* time.Time.Format
FormatDate(d) == <<"2006-01-02 15:04:05", d>>

formatMessageURL(channelID, messageID, username) ==
    IF username # <<>>
    THEN <<"https://t.me/">> \o username \o <<"/">> \o Itoa(messageID)
    ELSE <<"https://t.me/c/">> \o Itoa(channelID) \o <<"/">> \o Itoa(messageID)

\* the ChannelSearchResult of a channel, with the offset of searchMessages;
\* FirstMessageDate 0 is the zero time
NoResult ==
    [ChannelID |-> 0, AccessHash |-> 0, Title |-> "", Username |-> <<>>,
     MemberCount |-> 0, Admins |-> <<>>, Messages |-> <<>>,
     FirstMessageDate |-> 0, offset |-> 0]

NewResult(channelID, accessHash) ==
    [NoResult EXCEPT !.ChannelID = channelID, !.AccessHash = accessHash]

\* an entry of the history of calls
Call(api, g, ok, arg, n) == [api |-> api, g |-> g, ok |-> ok, arg |-> arg, n |-> n]

\* getChannelAdmins: the handle of an admin, or the name when it has none
adminList(channelID) ==
    LET users == Backend(channelID).Admins
    IN [i \in 1..Len(users) |->
            IF users[i].Username = <<>>
            THEN users[i].FirstName \o <<" ">> \o users[i].LastName
            ELSE users[i].Username]

\* strings.Join
RECURSIVE JoinWith(_, _)
JoinWith(parts, sep) ==
    IF parts = <<>> THEN <<>>
    ELSE IF Len(parts) = 1 THEN parts[1]
    ELSE parts[1] \o sep \o JoinWith(Tail(parts), sep)

\* the test that keeps the first message date, taking every date
Earlier_Always(messageDate, firstMessageDate) == TRUE

\* the test that keeps the first message date: none yet (the zero time), or
\* the date of the message is before it
Earlier(messageDate, firstMessageDate) ==
    firstMessageDate = 0 \/ messageDate < firstMessageDate

\* the loop over a page: only a *tg.Message is appended
RECURSIVE AppendPage(_, _, _)
AppendPage(res, page, channelUsername) ==
    IF page = <<>> THEN res
    ELSE LET m == Head(page)
             first == IF m.isMessage /\ Earlier(m.Date, res.FirstMessageDate)
                      THEN m.Date ELSE res.FirstMessageDate
             msgs == IF m.isMessage
                     THEN Append(res.Messages,
                                 [MessageID |-> m.ID, Date |-> FormatDate(m.Date),
                                  URL |-> formatMessageURL(res.ChannelID, m.ID, channelUsername),
                                  ChannelTitle |-> "", ChannelUsername |-> <<>>])
                     ELSE res.Messages
         IN AppendPage([res EXCEPT !.FirstMessageDate = first, !.Messages = msgs],
                       Tail(page), channelUsername)

\* the second break of the page loop, never taken
LastPage_Never(n) == FALSE

\* the second break of the page loop
LastPage(n) == n < PageSize

\* what searchChannel returns when a page request fails, keeping the pages read
SearchError_KeepPartial(res) == [result |-> res, err |-> "nil"]

\* what searchChannel returns when a page request fails
SearchError(res) == [result |-> NoResult, err |-> "error searching messages"]

\* the channel Run goes to after a channel failed, ending the loop
NextAfterError_Abort(idx, n) == n + 1

\* the channel Run goes to after a channel failed
NextAfterError(idx, n) == idx + 1

\* Run's stamping of the channel on the messages of a result
Stamp(msgs, title, username) ==
    [i \in 1..Len(msgs) |-> [msgs[i] EXCEPT !.ChannelTitle = title, !.ChannelUsername = username]]

ChannelMetadata(res) ==
    [ChannelTitle |-> res.Title, ChannelUsername |-> res.Username,
     ChannelLink |-> formatMessageURL(res.ChannelID, 0, res.Username),
     ChannelAdmins |-> JoinWith(res.Admins, <<",", " ">>), MemberCount |-> res.MemberCount,
     UserFirstMessage |-> FormatDate(res.FirstMessageDate)]

(***************************************************************************)
(* package commands: runMonitor                                            *)
(***************************************************************************)
\* the longest list of a monitor configuration
MaxEntries == 2

\* the entries of a monitor configuration (config.MonitorSource,
\* config.MonitorTarget): an id, a handle, or neither
SourceEntries ==
    { [ID |-> 100, Username |-> <<>>],
      [ID |-> 0,   Username |-> tech],
      [ID |-> 0,   Username |-> <<>>] }

TargetEntries ==
    { [ID |-> 200, Username |-> <<>>],
      [ID |-> 0,   Username |-> quiet],
      [ID |-> 0,   Username |-> <<>>] }

UserEntries ==
    { [ID |-> 7, Username |-> <<>>],
      [ID |-> 0, Username |-> alice] }

MonitorConfigs ==
    [SourceChannels : SeqsUpTo(SourceEntries, MaxEntries),
     SourceGroups   : SeqsUpTo(SourceEntries \ {[ID |-> 0, Username |-> <<>>]}, 1),
     TargetChannels : SeqsUpTo(TargetEntries, MaxEntries),
     MonitorUsers   : SeqsUpTo(UserEntries, 1)]

\* what a call of ResolveChannelUsername or ResolveUserUsername gives for a
\* handle: an error, or the id the handle stands for
ResolveAnswers(username) ==
    {[err |-> "rpc", id |-> 0]} \cup
    (IF username = tech THEN {[err |-> "nil", id |-> 501]}
     ELSE IF username = quiet THEN {[err |-> "nil", id |-> 504]}
     ELSE IF username = alice THEN {[err |-> "nil", id |-> 1]}
     ELSE {})

\* the answers the calls for the entries of a list may give, entry by entry
AnswerLists(entries) ==
    {as \in [1..Len(entries) -> UNION {ResolveAnswers(u) : u \in {tech, quiet, alice}}] :
        \A i \in 1..Len(entries) : as[i] \in ResolveAnswers(entries[i].Username)}

\* the loop of resolveSources, resolveTargets and resolveUsers over a list:
\* the ids appended, and the number of warnings printed
RECURSIVE resolveEntries(_, _, _)
resolveEntries(entries, answers, acc) ==
    IF entries = <<>> THEN acc
    ELSE LET e == Head(entries)
             next ==
                IF e.ID # 0
                THEN [acc EXCEPT !.ids = Append(@, e.ID)]
                ELSE IF e.Username # <<>>
                THEN IF Head(answers).err # "nil"
                     THEN [acc EXCEPT !.warnings = @ + 1]
                     ELSE [acc EXCEPT !.ids = Append(@, Head(answers).id)]
                ELSE acc
         IN resolveEntries(Tail(entries), Tail(answers), next)

\* the guard of runMonitor on the resolved sources and on the resolved
\* targets, never taken
NoneResolved_Never(ids) == FALSE

\* the guard of runMonitor on the resolved sources and on the resolved targets
NoneResolved(ids) == Len(ids) = 0

\* runMonitor before it runs
NotRunning ==
    [pc |-> "idle",
     cfg |-> [SourceChannels |-> <<>>, SourceGroups |-> <<>>,
              TargetChannels |-> <<>>, MonitorUsers |-> <<>>],
     sourceIDs |-> <<>>, targetIDs |-> <<>>, userIDs |-> <<>>,
     warnings |-> [sources |-> 0, targets |-> 0, users |-> 0],
     started |-> "none", targetChannelID |-> 0, err |-> "nil"]

RunMonitorIdle == rm = NotRunning

(***************************************************************************)
(* package commands / package telegram: the export of a search             *)
(***************************************************************************)
\* the most message records a search hands to the export
MaxFound == 2

json == <<"j", "s", "o", "n">>
csv == <<"c", "s", "v">>
messagesType == <<"m", "e", "s", "s", "a", "g", "e", "s">>
channelMetadataType ==
    <<"c", "h", "a", "n", "n", "e", "l", "_", "m", "e", "t", "a", "d", "a", "t", "a">>

\* export.FormatFilename: fmt.Sprintf("%s_%s.%s", username, dataType, format)
FormatFilename(username, dataType, format) ==
    username \o <<"_">> \o dataType \o <<".">> \o format

\* runSearch: the output format handed to RunClient
SelectFormat(exportJSON, exportCSV) ==
    IF exportJSON THEN json ELSE IF exportCSV THEN csv ELSE json

\* exportResults: the channel metadata is exported `if exportMetadata`
WritesMetadata(exportMetadata) == exportMetadata

\* what Run collected: allMessages and allMetadata of a search with n message
\* records, all of one channel
Found(n) ==
    [allMessages |-> [k \in 1..n |-> [ChannelTitle |-> <<"T">>, MessageID |-> 100 - k]],
     allMetadata |-> IF n = 0 THEN <<>> ELSE <<[ChannelTitle |-> <<"T">>, MemberCount |-> 120]>>]

\* the search command before it runs
NoExport ==
    [pc |-> "idle", username |-> <<>>, exportJSON |-> FALSE, exportCSV |-> FALSE,
     exportChannelMetadata |-> FALSE, format |-> <<>>, allMessages |-> <<>>,
     allMetadata |-> <<>>, files |-> <<>>, warnings |-> 0]

ExportIdle == ex = NoExport

(***************************************************************************)
(* package telegram: the searched user's identity through Client.Run       *)
(***************************************************************************)
\* the longest channel list of a search by id
MaxScanned == 2

\* the users ChannelsGetParticipants lists for a channel
Members(channelID) ==
    CASE channelID = 501 ->
            <<[isUser |-> TRUE, ID |-> 8, Username |-> bob, AccessHash |-> 88],
              [isUser |-> TRUE, ID |-> 7, Username |-> alice, AccessHash |-> 77]>>
      [] channelID = 900 ->
            <<[isUser |-> TRUE, ID |-> 6, Username |-> <<>>, AccessHash |-> 66],
              [isUser |-> TRUE, ID |-> 7, Username |-> alice, AccessHash |-> 77]>>
      [] OTHER -> <<>>

\* the loop over channelParticipants.Users: the first *tg.User with the id
RECURSIVE FindMember(_, _)
FindMember(users, userID) ==
    IF users = <<>> THEN [found |-> FALSE, Username |-> <<>>, AccessHash |-> 0]
    ELSE IF Head(users).isUser /\ Head(users).ID = userID
         THEN [found |-> TRUE, Username |-> Head(users).Username,
               AccessHash |-> Head(users).AccessHash]
         ELSE FindMember(Tail(users), userID)

\* the users a search is run for: by id alone, or by handle
IDSearchUsers ==
    { [Username |-> <<>>, ID |-> 6],
      [Username |-> <<>>, ID |-> 7],
      [Username |-> <<>>, ID |-> 9],
      [Username |-> alice, ID |-> 0] }

\* the backend's answer when the handle of a user is resolved
UserDirectory(username) ==
    IF username = alice
    THEN [err |-> "nil", Chats |-> <<>>,
          Users |-> <<[isUser |-> TRUE, ID |-> 7, Username |-> alice, AccessHash |-> 77]>>]
    ELSE [err |-> "nil", Chats |-> <<>>, Users |-> <<>>]

\* the channel lists of a search by id: every entry a different channel
ScanLists ==
    {gs \in SeqsUpTo(GroupPool, MaxScanned) :
        \A i, j \in 1..Len(gs) : gs[i] = gs[j] => i = j}

\* the head of the loop of tryResolveUsernameFromGroups: the channel id and
\* access hash of a group, both 0 when the group is skipped
scanChannel(group, answer) ==
    IF group.Username # <<>>
    THEN IF answer.err # "nil" THEN [ID |-> 0, AccessHash |-> 0]
         ELSE FirstChannel(answer.Chats)
    ELSE IF group.ID # 0 THEN [ID |-> group.ID, AccessHash |-> group.ID]
    ELSE [ID |-> 0, AccessHash |-> 0]

\* an entry of the log of a search: a participants scan or a message search
IDCall(api, phase, g, ok, found, userID, accessHash) ==
    [api |-> api, phase |-> phase, g |-> g, ok |-> ok, found |-> found,
     UserID |-> userID, AccessHash |-> accessHash]

\* Client.Run before it runs
NoIDSearch ==
    [pc |-> "idle", request |-> [Username |-> <<>>, ID |-> 0],
     searchUser |-> [Username |-> <<>>, ID |-> 0], groups |-> <<>>,
     userID |-> 0, userAccessHash |-> 0, idx |-> 0, log |-> <<>>]

IDSearchIdle == run = NoIDSearch

(***************************************************************************)
(* The state of each component before it runs                              *)
(***************************************************************************)
NoVerdict == [called |-> FALSE]

FilterIdle ==
    /\ message_filters = <<>>
    /\ fmFilters = <<>>
    /\ fmLoaded = FALSE
    /\ verdict = NoVerdict

StoreIdle ==
    /\ messages = <<>>
    /\ saveLog = <<>>

MonitorIdle ==
    /\ mode = "MonitorAndForward"
    /\ monState = "Idle"
    /\ updates = <<>>
    /\ h = HandlerIdle
    /\ calls = <<>>

NoResolution == [called |-> FALSE]

ResolveIdle == resolved = NoResolution

CrawlIdle ==
    /\ groups = <<>>
    /\ groupIdx = 1
    /\ cpc = "done"
    /\ result = NoResult
    /\ allMessages = <<>>
    /\ allMetadata = <<>>
    /\ crawlLog = <<>>

(***************************************************************************)
(* The filter commands and the filter manager                              *)
(***************************************************************************)
InitFilter ==
    /\ FilterIdle
    /\ StoreIdle
    /\ MonitorIdle
    /\ ResolveIdle
    /\ RunMonitorIdle
    /\ ExportIdle
    /\ IDSearchIdle
    /\ CrawlIdle
    /\ lastErr = "nil"

\* teleslurp filter add
RunAddFilter ==
    /\ ~fmLoaded
    /\ Len(message_filters) < MaxFilters
    /\ \E in \in AddInputs :
          LET r == runAddFilter(message_filters, in[1], in[2], in[3], in[4])
          IN  /\ message_filters' = r.table
              /\ lastErr' = r.err
    /\ UNCHANGED <<fmFilters, fmLoaded, verdict, rm, ex, run, storeVars, monVars, resolved, crawlVars>>

\* teleslurp filter disable <id>
RunDisableFilter ==
    /\ ~fmLoaded
    /\ \E id \in 1..MaxFilters :
          message_filters' = DisableFilter(message_filters, id)
    /\ lastErr' = "nil"
    /\ UNCHANGED <<fmFilters, fmLoaded, verdict, rm, ex, run, storeVars, monVars, resolved, crawlVars>>

\* teleslurp filter enable <id>
RunEnableFilter ==
    /\ ~fmLoaded
    /\ \E id \in 1..MaxFilters :
          message_filters' = EnableFilter(message_filters, id)
    /\ lastErr' = "nil"
    /\ UNCHANGED <<fmFilters, fmLoaded, verdict, rm, ex, run, storeVars, monVars, resolved, crawlVars>>

\* FilterManager.LoadFilters, once per run
LoadFilters ==
    /\ ~fmLoaded
    /\ \E dbFilters \in GetActiveFilters(message_filters) :
          fmFilters' = BuildFilters(dbFilters)
    /\ fmLoaded' = TRUE
    /\ lastErr' = "nil"
    /\ UNCHANGED <<message_filters, verdict, rm, ex, run, storeVars, monVars, resolved, crawlVars>>

\* a call of FilterManager.ProcessMessage on the loaded rules; verdict keeps the
\* call and its result
Evaluate ==
    /\ fmLoaded
    /\ ~verdict.called
    /\ \E message \in Bodies, channelID \in EvalChannels, userID \in EvalUsers :
          LET r == ProcessMessage(fmFilters, message, channelID, userID)
          IN  verdict' = [called |-> TRUE, message |-> message, channelID |-> channelID,
                          userID |-> userID, process |-> r[1], action |-> r[2]]
    /\ UNCHANGED <<message_filters, fmFilters, fmLoaded, lastErr, rm, ex, run, storeVars, monVars, resolved, crawlVars>>

NextFilter ==
    \/ RunAddFilter
    \/ RunDisableFilter
    \/ RunEnableFilter
    \/ LoadFilters
    \/ Evaluate

SpecFilter == InitFilter /\ [][NextFilter]_vars

(***************************************************************************)
(* The message store                                                       *)
(***************************************************************************)
\* what SaveMessage is called with
SaveInputs ==
    { <<c, t, <<>>, i, 1, b, <<>>>> :
        c \in {100, 101}, t \in {<<"T">>, <<"U">>}, i \in {42, 43},
        b \in {spam, <<"h", "a", "m">>} }

InitStore ==
    /\ FilterIdle
    /\ StoreIdle
    /\ MonitorIdle
    /\ ResolveIdle
    /\ RunMonitorIdle
    /\ ExportIdle
    /\ IDSearchIdle
    /\ CrawlIdle
    /\ lastErr = "nil"

\* a call of DB.SaveMessage
CallSaveMessage ==
    /\ Len(saveLog) < MaxSaves
    /\ \E in \in SaveInputs :
          /\ messages' = SaveMessage(messages, in[1], in[2], in[3], in[4], in[5],
                                     in[6], in[7])
          /\ saveLog' = Append(saveLog, NewRow(in[1], in[2], in[3], in[4], in[5],
                                               in[6], in[7]))
    /\ lastErr' = "nil"
    /\ UNCHANGED <<filterVars, rm, ex, run, monVars, resolved, crawlVars>>

NextStore == CallSaveMessage

SpecStore == InitStore /\ [][NextStore]_vars

(***************************************************************************)
(* The monitor                                                             *)
(***************************************************************************)
\* the rule of the filter table in a monitor run
SpamRule ==
    [ID |-> 1, Pattern |-> spam, Type |-> "keyword", Action |-> "ignore",
     Priority |-> 5, enabled |-> TRUE]

InitMonitor ==
    /\ message_filters = <<SpamRule>>
    /\ fmFilters = <<>>
    /\ fmLoaded = FALSE
    /\ verdict = NoVerdict
    /\ StoreIdle
    /\ mode \in {"MonitorAndForward", "MonitorChannels"}
    /\ monState = "Idle"
    /\ updates = <<>>
    /\ h = HandlerIdle
    /\ calls = <<>>
    /\ ResolveIdle
    /\ RunMonitorIdle
    /\ ExportIdle
    /\ IDSearchIdle
    /\ CrawlIdle
    /\ lastErr = "nil"

\* the update the handler is running on
Cur == updates[Len(updates)]

\* a backend call of the handler, logged with the number of the update it is for
Log(call) == calls' = Append(calls, call @@ [ev |-> Len(updates)])

\* the monitor authenticates and, once authorized, waits for updates; the
\* answers of the initial UpdatesGetChannelDifference calls are only printed
StartMonitor ==
    /\ monState = "Idle"
    /\ \E authorized \in BOOLEAN :
          /\ monState' = AfterAuthenticate(authorized)
          /\ lastErr' = IF authorized THEN "nil" ELSE "error authenticating"
    /\ UNCHANGED <<filterVars, rm, ex, run, storeVars, resolved, crawlVars, mode, updates, h, calls>>

\* the backend pushes an update and the dispatcher hands it to the handler; the
\* handler returns at once on a message that is no *tg.Message, whose peer is no
\* channel, or whose channel is not monitored
Deliver ==
    /\ Dispatching(monState)
    /\ h.pc = "idle"
    /\ Len(updates) < MaxEvents
    /\ \E update \in Updates :
          /\ updates' = Append(updates, update)
          /\ IF ShouldHandle(update)
             THEN h' = [HandlerIdle EXCEPT !.pc = "getFull"]
             ELSE h' = HandlerIdle
    /\ UNCHANGED <<filterVars, rm, ex, run, storeVars, resolved, crawlVars, mode, monState, calls, lastErr>>

\* ChannelsGetFullChannel, then the title, the protection flag, the message text
\* and the media switch
GetFullChannel ==
    /\ h.pc = "getFull"
    /\ \E ok \in BOOLEAN :
          /\ Log([api |-> "ChannelsGetFullChannel", ok |-> ok,
                  channelID |-> Cur.channelID])
          /\ IF ~ok
             THEN h' = HandlerIdle
             ELSE LET info         == ChanInfo(Cur.channelID)
                      channelTitle == IF info.isChannel THEN info.Title ELSE <<>>
                      isProtected  == info.isChannel /\ info.Noforwards
                  IN  h' = [HandlerIdle EXCEPT
                              !.pc = MediaBranch(Cur.Media, isProtected),
                              !.channelTitle = channelTitle,
                              !.isProtected = isProtected,
                              !.messageText =
                                  Cur.Message \o Attribution(isProtected, channelTitle)]
    /\ UNCHANGED <<filterVars, rm, ex, run, storeVars, resolved, crawlVars, mode, monState, updates, lastErr>>

\* MessagesSendMessage with the message text (no media, or an unhandled media type)
SendText ==
    /\ h.pc = "sendText"
    /\ \E ok \in BOOLEAN :
          Log([api |-> "MessagesSendMessage", ok |-> ok,
               peer |-> TargetPeer(mode, Cur.channelID), message |-> h.messageText])
    /\ h' = HandlerIdle
    /\ UNCHANGED <<filterVars, rm, ex, run, storeVars, resolved, crawlVars, mode, monState, updates, lastErr>>

\* MessagesSendMessage for a photo of a protected channel
SendProtected ==
    /\ h.pc = "sendProtected"
    /\ \E ok \in BOOLEAN :
          Log([api |-> "MessagesSendMessage", ok |-> ok,
               peer |-> TargetPeer(mode, Cur.channelID),
               message |-> h.messageText \o PhotoNotice])
    /\ h' = HandlerIdle
    /\ UNCHANGED <<filterVars, rm, ex, run, storeVars, resolved, crawlVars, mode, monState, updates, lastErr>>

\* one UploadGetFile of the download loop
Download ==
    /\ h.pc = "download"
    /\ \E answer \in {"file", "error", "other type"} :
          /\ Log([api |-> "UploadGetFile", ok |-> (answer = "file"),
                  offset |-> h.offset, limit |-> ChunkLimit])
          /\ IF answer # "file"
             THEN h' = RelayFailed(h)
             ELSE LET n == ChunkLen(Cur.size, h.offset)
                  IN  \E fileID \in FileIDs :
                        h' = [h EXCEPT
                                !.chunks = Append(h.chunks, [offset |-> h.offset, len |-> n]),
                                !.offset = h.offset + n,
                                !.pc = IF LastChunk(n) THEN "upload" ELSE "download",
                                !.fileID = IF LastChunk(n) THEN fileID ELSE 0]
    /\ UNCHANGED <<filterVars, rm, ex, run, storeVars, resolved, crawlVars, mode, monState, updates, lastErr>>

\* one UploadSaveFilePart of the upload loop
Upload ==
    /\ h.pc = "upload"
    /\ \E uploaded \in BOOLEAN :
          /\ Log([api |-> "UploadSaveFilePart", ok |-> uploaded, fileID |-> h.fileID,
                  filePart |-> h.part, bytes |-> h.chunks[h.part + 1]])
          /\ IF ~uploaded
             THEN h' = RelayFailed(h)
             ELSE h' = [h EXCEPT
                          !.part = h.part + 1,
                          !.pc = IF h.part + 1 < Len(h.chunks) THEN "upload"
                                 ELSE "sendMedia"]
    /\ UNCHANGED <<filterVars, rm, ex, run, storeVars, resolved, crawlVars, mode, monState, updates, lastErr>>

\* MessagesSendMedia with the uploaded photo
SendMedia ==
    /\ h.pc = "sendMedia"
    /\ \E ok \in BOOLEAN :
          /\ Log([api |-> "MessagesSendMedia", ok |-> ok,
                  peer |-> TargetPeer(mode, Cur.channelID), message |-> h.messageText,
                  fileID |-> h.fileID, parts |-> Len(h.chunks)])
          /\ h' = IF ok THEN HandlerIdle ELSE RelayFailed(h)
    /\ UNCHANGED <<filterVars, rm, ex, run, storeVars, resolved, crawlVars, mode, monState, updates, lastErr>>

\* the context is cancelled (SIGINT / SIGTERM): the monitor returns nil, whether
\* or not a handler is running; the handler may still run to its end before the
\* command exits
Cancel ==
    /\ monState = "Listening"
    /\ monState' = "Returned"
    /\ lastErr' = "nil"
    /\ UNCHANGED <<filterVars, rm, ex, run, storeVars, resolved, crawlVars, mode, updates, h, calls>>

NextMonitor ==
    \/ StartMonitor
    \/ Deliver
    \/ GetFullChannel
    \/ SendText
    \/ SendProtected
    \/ Download
    \/ Upload
    \/ SendMedia
    \/ Cancel

SpecMonitor == InitMonitor /\ [][NextMonitor]_vars

(***************************************************************************)
(* Identity resolution                                                     *)
(***************************************************************************)
InitResolve ==
    /\ FilterIdle
    /\ StoreIdle
    /\ MonitorIdle
    /\ ResolveIdle
    /\ RunMonitorIdle
    /\ ExportIdle
    /\ IDSearchIdle
    /\ CrawlIdle
    /\ lastErr = "nil"

\* Run resolves the searched user
CallResolveUser ==
    /\ ~resolved.called
    /\ \E searchUser \in SearchUsers, answer \in UserAnswers :
        LET r == resolveUser(searchUser, answer)
        IN /\ resolved' = [called |-> TRUE, op |-> "resolveUser", request |-> searchUser,
                           asked |-> searchUser.Username # <<>>,
                           answer |-> answer, ID |-> r.ID, AccessHash |-> r.AccessHash]
           /\ lastErr' = r.err
    /\ UNCHANGED <<filterVars, rm, ex, run, storeVars, monVars, crawlVars>>

\* searchChannel resolves the channel of a group
CallResolveChannel ==
    /\ ~resolved.called
    /\ \E channel \in SearchChannels, answer \in ChatAnswers :
        LET r == resolveChannel(channel, answer)
        IN /\ resolved' = [called |-> TRUE, op |-> "resolveChannel", request |-> channel,
                           asked |-> channel.Username # <<>>,
                           answer |-> answer, ID |-> r.ID, AccessHash |-> r.AccessHash]
           /\ lastErr' = r.err
    /\ UNCHANGED <<filterVars, rm, ex, run, storeVars, monVars, crawlVars>>

NextResolve == CallResolveUser \/ CallResolveChannel

SpecResolve == InitResolve /\ [][NextResolve]_vars

(***************************************************************************)
(* The crawl                                                               *)
(***************************************************************************)
InitCrawl ==
    /\ FilterIdle
    /\ StoreIdle
    /\ MonitorIdle
    /\ ResolveIdle
    /\ RunMonitorIdle
    /\ ExportIdle
    /\ IDSearchIdle
    /\ groups \in GroupLists
    /\ groupIdx = 1
    /\ cpc = IF Len(groups) = 0 THEN "done" ELSE "channel"
    /\ result = NoResult
    /\ allMessages = <<>>
    /\ allMetadata = <<>>
    /\ crawlLog = <<>>
    /\ lastErr = "nil"

\* Run moves to channel idx, or leaves the loop
GoTo(idx) ==
    /\ groupIdx' = idx
    /\ cpc' = IF idx > Len(groups) THEN "done" ELSE "channel"
    /\ result' = NoResult

\* searchChannel returned an error: Run prints it and continues
ChannelFailed(log) ==
    /\ crawlLog' = log
    /\ GoTo(NextAfterError(groupIdx, Len(groups)))
    /\ UNCHANGED <<allMessages, allMetadata>>

\* searchChannel returned a result: Run keeps it when it has messages, and
\* sleeps
ChannelDone(res, log) ==
    /\ IF Len(res.Messages) > 0
       THEN /\ allMessages' = allMessages \o Stamp(res.Messages, res.Title, res.Username)
            /\ allMetadata' = Append(allMetadata, ChannelMetadata(res))
       ELSE UNCHANGED <<allMessages, allMetadata>>
    /\ crawlLog' = Append(log, Call("Sleep", groupIdx, TRUE, ChannelSleep, 0))
    /\ GoTo(groupIdx + 1)

\* searchChannel: the channel of the group, resolved by handle or taken by id
ResolveChannel ==
    /\ cpc = "channel"
    /\ LET group == groups[groupIdx]
       IN IF group.Username # <<>>
          THEN \E answer \in {[err |-> "rpc", Users |-> <<>>, Chats |-> <<>>],
                              Directory(TrimPrefix(group.Username, "@"))} :
                LET r == resolveChannel(group, answer)
                    log == Append(crawlLog,
                                  Call("ContactsResolveUsername", groupIdx, r.err = "nil", 0, 0))
                IN IF r.err # "nil"
                   THEN ChannelFailed(log)
                   ELSE /\ result' = NewResult(r.ID, r.AccessHash)
                        /\ cpc' = "info"
                        /\ crawlLog' = log
                        /\ UNCHANGED <<groupIdx, allMessages, allMetadata>>
          ELSE LET r == resolveChannel(group, Directory(<<>>))
               IN /\ result' = NewResult(r.ID, r.AccessHash)
                  /\ cpc' = "info"
                  /\ UNCHANGED <<groupIdx, allMessages, allMetadata, crawlLog>>
    /\ UNCHANGED <<filterVars, rm, ex, run, storeVars, monVars, resolved, groups, lastErr>>

\* searchChannel: getChannelInfo, and the title and handle of the channel
GetChannelInfo ==
    /\ cpc = "info"
    /\ \E answer \in {"chats", "rpc", "other type"} :
        LET log == Append(crawlLog, Call("ChannelsGetChannels", groupIdx, answer = "chats", 0, 0))
            b == Backend(result.ChannelID)
        IN IF answer # "chats"
           THEN ChannelFailed(log)
           ELSE /\ crawlLog' = log
                /\ IF b.known
                   THEN /\ result' = [result EXCEPT !.Title = b.Title, !.Username = b.Username]
                        /\ cpc' = "meta"
                   ELSE /\ result' = result
                        /\ cpc' = "search"
                /\ UNCHANGED <<groupIdx, allMessages, allMetadata>>
    /\ UNCHANGED <<filterVars, rm, ex, run, storeVars, monVars, resolved, groups, lastErr>>

\* searchChannel: the member count and the admins, an error of either ending
\* the crawl of the channel
GetMetadata_Abort ==
    /\ cpc = "meta"
    /\ LET b == Backend(result.ChannelID)
           answers == IF b.restricted THEN {FALSE} ELSE BOOLEAN
       IN \E fullOK \in answers, adminsOK \in answers :
          LET log == crawlLog \o
                        <<Call("ChannelsGetFullChannel", groupIdx, fullOK, 0, 0),
                          Call("ChannelsGetParticipants", groupIdx, adminsOK, 0, 0)>>
          IN IF fullOK /\ adminsOK
             THEN /\ result' = [result EXCEPT !.MemberCount = b.ParticipantsCount,
                                              !.Admins = adminList(result.ChannelID)]
                  /\ crawlLog' = log
                  /\ cpc' = "search"
                  /\ UNCHANGED <<groupIdx, allMessages, allMetadata>>
             ELSE ChannelFailed(log)
    /\ UNCHANGED <<filterVars, rm, ex, run, storeVars, monVars, resolved, groups, lastErr>>

\* searchChannel: the member count and the admins; an error leaves the field
GetMetadata ==
    /\ cpc = "meta"
    /\ LET b == Backend(result.ChannelID)
           answers == IF b.restricted THEN {FALSE} ELSE BOOLEAN
       IN \E fullOK \in answers, adminsOK \in answers :
          /\ result' = [result EXCEPT
                           !.MemberCount = IF fullOK THEN b.ParticipantsCount ELSE @,
                           !.Admins = IF adminsOK THEN adminList(result.ChannelID) ELSE @]
          /\ crawlLog' = crawlLog \o
                 <<Call("ChannelsGetFullChannel", groupIdx, fullOK, 0, 0),
                   Call("ChannelsGetParticipants", groupIdx, adminsOK, 0, 0)>>
    /\ cpc' = "search"
    /\ UNCHANGED <<groupIdx, allMessages, allMetadata>>
    /\ UNCHANGED <<filterVars, rm, ex, run, storeVars, monVars, resolved, groups, lastErr>>

\* searchMessages: one turn of the page loop
SearchPage ==
    /\ cpc = "search"
    /\ \E answer \in {"messages", "rpc", "other type"} :
        LET page == Page(result.ChannelID, result.offset)
            n == Len(page)
            log == Append(crawlLog,
                          Call("MessagesSearch", groupIdx, answer = "messages", result.offset,
                               IF answer = "messages" THEN n ELSE 0))
        IN IF answer # "messages"
           THEN LET r == SearchError(result)
                IN IF r.err # "nil" THEN ChannelFailed(log) ELSE ChannelDone(r.result, log)
           ELSE IF n = 0
           THEN ChannelDone(result, log)
           ELSE LET res == [AppendPage(result, page, Backend(result.ChannelID).Username)
                               EXCEPT !.offset = @ + n]
                    slept == Append(log, Call("Sleep", groupIdx, TRUE, PageSleep, 0))
                IN IF LastPage(n)
                   THEN ChannelDone(res, slept)
                   ELSE /\ result' = res
                        /\ crawlLog' = slept
                        /\ UNCHANGED <<groupIdx, cpc, allMessages, allMetadata>>
    /\ UNCHANGED <<filterVars, rm, ex, run, storeVars, monVars, resolved, groups, lastErr>>

NextCrawl == ResolveChannel \/ GetChannelInfo \/ GetMetadata \/ SearchPage

SpecCrawl == InitCrawl /\ [][NextCrawl]_vars

(***************************************************************************)
(* runMonitor                                                              *)
(***************************************************************************)
InitRunMonitor ==
    /\ FilterIdle
    /\ StoreIdle
    /\ MonitorIdle
    /\ ResolveIdle
    /\ CrawlIdle
    /\ ExportIdle
    /\ IDSearchIdle
    /\ \E cfg \in MonitorConfigs : rm = [NotRunning EXCEPT !.pc = "sources", !.cfg = cfg]
    /\ lastErr = "nil"

\* runMonitor returns an error
Fail(err) == rm' = [rm EXCEPT !.pc = "returned", !.err = err]

\* resolveSources, and the check of its result
ResolveSources ==
    /\ rm.pc = "sources"
    /\ \E runOK \in BOOLEAN :
       \E ac \in AnswerLists(rm.cfg.SourceChannels), ag \in AnswerLists(rm.cfg.SourceGroups) :
        LET none == [ids |-> <<>>, warnings |-> 0]
            r == resolveEntries(rm.cfg.SourceGroups, ag,
                                resolveEntries(rm.cfg.SourceChannels, ac, none))
        IN IF ~runOK
           THEN Fail("error resolving source channels/groups")
           ELSE IF NoneResolved(r.ids)
           THEN rm' = [rm EXCEPT !.pc = "returned", !.warnings.sources = r.warnings,
                                 !.err = "no valid source channels or groups"]
           ELSE rm' = [rm EXCEPT !.pc = "targets", !.sourceIDs = r.ids,
                                 !.warnings.sources = r.warnings]
    /\ UNCHANGED <<filterVars, storeVars, monVars, resolved, crawlVars, ex, run, lastErr>>

\* resolveTargets, and the check of its result
ResolveTargets ==
    /\ rm.pc = "targets"
    /\ \E runOK \in BOOLEAN :
       \E at \in AnswerLists(rm.cfg.TargetChannels) :
        LET r == resolveEntries(rm.cfg.TargetChannels, at, [ids |-> <<>>, warnings |-> 0])
        IN IF ~runOK
           THEN Fail("error resolving target channels")
           ELSE IF NoneResolved(r.ids)
           THEN rm' = [rm EXCEPT !.pc = "returned", !.warnings.targets = r.warnings,
                                 !.err = "no valid target channels"]
           ELSE rm' = [rm EXCEPT !.pc = "users", !.targetIDs = r.ids,
                                 !.warnings.targets = r.warnings]
    /\ UNCHANGED <<filterVars, storeVars, monVars, resolved, crawlVars, ex, run, lastErr>>

\* resolveUsers, and the start of the monitor on the first target
ResolveUsersAndStart ==
    /\ rm.pc = "users"
    /\ \E runOK \in BOOLEAN :
       \E au \in AnswerLists(rm.cfg.MonitorUsers) :
        LET r == resolveEntries(rm.cfg.MonitorUsers, au, [ids |-> <<>>, warnings |-> 0])
        IN IF ~runOK
           THEN Fail("error resolving users for monitoring")
           ELSE rm' = [rm EXCEPT !.pc = "monitoring", !.userIDs = r.ids,
                                 !.warnings.users = r.warnings,
                                 !.targetChannelID = rm.targetIDs[1],
                                 !.started = IF Len(r.ids) > 0
                                             THEN "MonitorAndForwardWithUsers"
                                             ELSE "MonitorAndForward"]
    /\ UNCHANGED <<filterVars, storeVars, monVars, resolved, crawlVars, ex, run, lastErr>>

NextRunMonitor == ResolveSources \/ ResolveTargets \/ ResolveUsersAndStart

SpecRunMonitor == InitRunMonitor /\ [][NextRunMonitor]_vars

(***************************************************************************)
(* The export of a search                                                  *)
(***************************************************************************)
\* the search command was started with its flags and a handle to search for;
\* Run has collected the message and metadata records
InitExport ==
    /\ FilterIdle
    /\ StoreIdle
    /\ MonitorIdle
    /\ ResolveIdle
    /\ CrawlIdle
    /\ RunMonitorIdle
    /\ IDSearchIdle
    /\ \E username \in {alice, bob}, exportJSON, exportCSV, exportChannelMetadata \in BOOLEAN,
          n \in 0..MaxFound :
          ex = [NoExport EXCEPT
                  !.pc = "format", !.username = username, !.exportJSON = exportJSON,
                  !.exportCSV = exportCSV, !.exportChannelMetadata = exportChannelMetadata,
                  !.allMessages = Found(n).allMessages, !.allMetadata = Found(n).allMetadata]
    /\ lastErr = "nil"

\* runSearch: the format handed to RunClient
RunClient ==
    /\ ex.pc = "format"
    /\ ex' = [ex EXCEPT !.format = SelectFormat(ex.exportJSON, ex.exportCSV), !.pc = "run"]
    /\ UNCHANGED <<filterVars, storeVars, monVars, resolved, crawlVars, run, rm, lastErr>>

\* Run, after the loop over the channels: nothing is exported when no message
\* was found
RunEnds ==
    /\ ex.pc = "run"
    /\ ex' = [ex EXCEPT !.pc = IF Len(ex.allMessages) = 0 THEN "done" ELSE "messages"]
    /\ UNCHANGED <<filterVars, storeVars, monVars, resolved, crawlVars, run, rm, lastErr>>

\* a file of the export: os.Create and the records written to it
File(name, records) == [name |-> name, records |-> records]

\* exportResults: the message file; a failure is printed as a warning
ExportMessages ==
    /\ ex.pc = "messages"
    /\ \E created \in BOOLEAN :
          ex' = [ex EXCEPT
                   !.files = IF created
                             THEN Append(@, File(FormatFilename(ex.username, messagesType,
                                                                ex.format),
                                                 ex.allMessages))
                             ELSE @,
                   !.warnings = IF created THEN @ ELSE @ + 1,
                   !.pc = IF WritesMetadata(ex.exportChannelMetadata)
                          THEN "metadata" ELSE "done"]
    /\ UNCHANGED <<filterVars, storeVars, monVars, resolved, crawlVars, run, rm, lastErr>>

\* exportResults: the channel metadata file; a failure is printed as a warning
ExportChannelMetadata ==
    /\ ex.pc = "metadata"
    /\ \E created \in BOOLEAN :
          ex' = [ex EXCEPT
                   !.files = IF created
                             THEN Append(@, File(FormatFilename(ex.username,
                                                                channelMetadataType, ex.format),
                                                 ex.allMetadata))
                             ELSE @,
                   !.warnings = IF created THEN @ ELSE @ + 1,
                   !.pc = "done"]
    /\ UNCHANGED <<filterVars, storeVars, monVars, resolved, crawlVars, run, rm, lastErr>>

NextExport == RunClient \/ RunEnds \/ ExportMessages \/ ExportChannelMetadata

SpecExport == InitExport /\ [][NextExport]_vars

(***************************************************************************)
(* The searched user's identity through Client.Run                         *)
(*                                                                         *)
(* Of searchChannel, the calls that carry the user's identity are          *)
(* modelled here: the participants scan and the message search.  The       *)
(* channel info, the member count, the admins and the paging are in the    *)
(* crawl above.                                                            *)
(***************************************************************************)
InitIDSearch ==
    /\ FilterIdle
    /\ StoreIdle
    /\ MonitorIdle
    /\ ResolveIdle
    /\ CrawlIdle
    /\ RunMonitorIdle
    /\ ExportIdle
    /\ \E searchUser \in IDSearchUsers, gs \in ScanLists :
          run = [NoIDSearch EXCEPT !.pc = "resolveUser", !.request = searchUser,
                                   !.searchUser = searchUser, !.groups = gs]
    /\ lastErr = "nil"

\* Run: resolveUser; an error ends the run; tryResolveUsernameFromGroups is
\* entered only for a user with an id and no handle
ResolveSearchUser ==
    /\ run.pc = "resolveUser"
    /\ \E answer \in {[err |-> "rpc", Users |-> <<>>, Chats |-> <<>>],
                      UserDirectory(run.searchUser.Username)} :
          LET r == resolveUser(run.searchUser, answer)
              found == run.searchUser.Username # <<>> /\ r.err = "nil"
              searchUser == IF found THEN [run.searchUser EXCEPT !.ID = r.ID]
                            ELSE run.searchUser
          IN /\ lastErr' = r.err
             /\ run' = [run EXCEPT
                          !.searchUser = searchUser,
                          !.userID = r.ID,
                          !.userAccessHash = r.AccessHash,
                          !.idx = 1,
                          !.pc = IF r.err # "nil" THEN "failed"
                                 ELSE IF searchUser.ID # 0 /\ searchUser.Username = <<>>
                                 THEN (IF Len(run.groups) = 0 THEN "crawl" ELSE "scan")
                                 ELSE "crawl"]
    /\ UNCHANGED <<filterVars, storeVars, monVars, resolved, crawlVars, rm, ex>>

\* tryResolveUsernameFromGroups: one turn of the loop over the groups, and,
\* when the loop ends, what Run does with the result
ScanGroup ==
    /\ run.pc = "scan"
    /\ LET group == run.groups[run.idx]
           last == run.idx = Len(run.groups)
           next == [run EXCEPT !.idx = IF last THEN 1 ELSE @ + 1,
                               !.pc = IF last THEN "crawl" ELSE "scan"]
       IN \E answer \in {[err |-> "rpc", Users |-> <<>>, Chats |-> <<>>],
                         Directory(TrimPrefix(group.Username, "@"))},
             scanned \in BOOLEAN :
            LET ch == scanChannel(group, answer)
                u == FindMember(Members(ch.ID), run.userID)
                call == IDCall("ChannelsGetParticipants", "scan", run.idx, scanned,
                               scanned /\ u.found, 0, 0)
            IN IF ch.ID = 0
               THEN run' = next
               ELSE IF ~(scanned /\ u.found)
               THEN run' = [next EXCEPT !.log = Append(@, call)]
               ELSE run' = [run EXCEPT
                              !.log = Append(@, call),
                              !.searchUser.Username =
                                  IF u.Username # <<>> THEN u.Username ELSE @,
                              !.userAccessHash =
                                  IF u.Username # <<>> /\ u.AccessHash # 0
                                  THEN u.AccessHash ELSE @,
                              !.idx = 1,
                              !.pc = "crawl"]
    /\ UNCHANGED <<filterVars, storeVars, monVars, resolved, crawlVars, rm, ex, lastErr>>

\* Run: one turn of the loop over the groups; searchChannel resolves the
\* channel, scans its participants for a user still without a handle, and
\* searches the user's messages
SearchChannelByID ==
    /\ run.pc = "crawl"
    /\ run.idx <= Len(run.groups)
    /\ LET group == run.groups[run.idx]
           next == [run EXCEPT !.idx = @ + 1]
           r == resolveChannel(group, Directory(TrimPrefix(group.Username, "@")))
           scans == run.searchUser.Username = <<>> /\ run.searchUser.ID # 0
       IN IF r.err # "nil"
          THEN run' = next
          ELSE \E scanned \in (IF scans THEN BOOLEAN ELSE {FALSE}) :
                 LET u == FindMember(Members(r.ID), run.userID)
                     hit == scanned /\ u.found
                     userAccessHash == IF hit /\ u.AccessHash # 0 THEN u.AccessHash
                                       ELSE run.userAccessHash
                     scan == IF scans
                             THEN <<IDCall("ChannelsGetParticipants", "crawl", run.idx,
                                           scanned, hit, 0, 0)>>
                             ELSE <<>>
                     search == IDCall("MessagesSearch", "crawl", run.idx, TRUE, FALSE,
                                      run.userID, userAccessHash)
                 IN run' = [next EXCEPT
                              !.searchUser.Username = IF hit THEN u.Username ELSE @,
                              !.log = @ \o scan \o <<search>>]
    /\ UNCHANGED <<filterVars, storeVars, monVars, resolved, crawlVars, rm, ex, lastErr>>

\* Run: the loop over the groups has ended
RunReturns ==
    /\ run.pc = "crawl"
    /\ run.idx > Len(run.groups)
    /\ run' = [run EXCEPT !.pc = "done"]
    /\ UNCHANGED <<filterVars, storeVars, monVars, resolved, crawlVars, rm, ex, lastErr>>

NextIDSearch == ResolveSearchUser \/ ScanGroup \/ SearchChannelByID \/ RunReturns

SpecIDSearch == InitIDSearch /\ [][NextIDSearch]_vars

(***************************************************************************)
(* The claims                                                              *)
(***************************************************************************)
\* the verdict of the rule walk as specified: the first matching rule whose
\* action is ignore or highlight decides; otherwise the message is forwarded
RECURSIVE FirstMatchVerdict(_, _, _, _)
FirstMatchVerdict(filters, message, channelID, userID) ==
    IF filters = <<>> THEN "forward"
    ELSE IF Matches(Head(filters), message, channelID, userID)
            /\ Head(filters).Action = "ignore" THEN "ignored"
    ELSE IF Matches(Head(filters), message, channelID, userID)
            /\ Head(filters).Action = "highlight" THEN "highlight"
    ELSE FirstMatchVerdict(Tail(filters), message, channelID, userID)

\* C1: ProcessMessage over the loaded rules returns "ignored" when the first
\* matching ignore/highlight rule is an ignore rule, "highlight" when it is a
\* highlight rule, and "forward" otherwise.
C1_FirstMatchDecides ==
    verdict.called =>
        /\ verdict.action = FirstMatchVerdict(fmFilters, verdict.message,
                                              verdict.channelID, verdict.userID)
        /\ verdict.process = (verdict.action # "ignored")

IsSend(call) == call.api \in {"MessagesSendMessage", "MessagesSendMedia"}

IsRelayCall(call) ==
    call.api \in {"UploadGetFile", "UploadSaveFilePart", "MessagesSendMedia"}

Monitored(update) ==
    /\ update.kind = "message"
    /\ update.peer = "channel"
    /\ update.channelID \in sourceChannelIDs

\* the handler has returned from update number ev
Handled(ev) == ev < Len(updates) \/ (ev = Len(updates) /\ h.pc = "idle")

\* C2: with the enabled rule {keyword "spam", action ignore}, the handler issues
\* no send for a message of a monitored channel whose body contains "spam".
C2_SpamNeverForwarded ==
    \A i \in DOMAIN calls :
        LET update == updates[calls[i].ev]
        IN  (/\ \E k \in DOMAIN message_filters : message_filters[k] = SpamRule
             /\ Monitored(update)
             /\ Contains(ToLower(update.Message), spam))
            => ~IsSend(calls[i])

\* C3: when the same update (same channel, same message id) was delivered twice
\* and both deliveries are handled, the store holds exactly one record for it
\* and at most one message was sent for it.
C3_DuplicateDeliveredOnce ==
    \A a, b \in DOMAIN updates :
        (/\ a < b
         /\ Monitored(updates[a])
         /\ updates[a] = updates[b]
         /\ Handled(a) /\ Handled(b))
        => /\ Cardinality(Conflicts(messages, updates[a].channelID, updates[a].ID)) = 1
           /\ Cardinality({i \in DOMAIN calls :
                             calls[i].ev \in {a, b} /\ IsSend(calls[i]) /\ calls[i].ok}) <= 1

\* the first call in saveLog for the key of row
FirstSaved(channelID, messageID) ==
    saveLog[CHOOSE i \in DOMAIN saveLog :
               /\ saveLog[i].channel_id = channelID
               /\ saveLog[i].message_id = messageID
               /\ \A j \in 1..(i - 1) :
                     ~(saveLog[j].channel_id = channelID
                       /\ saveLog[j].message_id = messageID)]

\* C4: after any sequence of SaveMessage calls the store holds one record per
\* (channelID, messageID) saved, never two; the record is the one of the first
\* call with that key, whatever later calls carried; no call returned an error.
C4_SaveMessageIdempotent ==
    /\ lastErr = "nil"
    /\ \A i \in DOMAIN saveLog :
          Cardinality(Conflicts(messages, saveLog[i].channel_id,
                                saveLog[i].message_id)) = 1
    /\ \A i \in DOMAIN messages :
          /\ \E j \in DOMAIN saveLog : saveLog[j].channel_id = messages[i].channel_id
                                       /\ saveLog[j].message_id = messages[i].message_id
          /\ messages[i] = FirstSaved(messages[i].channel_id, messages[i].message_id)

\* C4 witness: a key was saved twice, the second time with other field values.
C4_Witness ==
    \E a, b \in DOMAIN saveLog :
        /\ a < b
        /\ saveLog[a].channel_id = saveLog[b].channel_id
        /\ saveLog[a].message_id = saveLog[b].message_id
        /\ saveLog[a] # saveLog[b]

\* the source channel of an update disallows forwarding
SourceProtected(update) ==
    ChanInfo(update.channelID).isChannel /\ ChanInfo(update.channelID).Noforwards

\* "[Protected Content] Originally posted in: <title>"
ProtectionMarker(channelTitle) ==
    SubSeq(ProtectedContent, 3, Len(ProtectedContent)) \o channelTitle

\* C6: for a message of a channel that disallows forwarding the handler issues
\* no UploadGetFile, and the body of every send it issues contains the
\* protection marker with the channel's title.
C6_ProtectedNeverFetched ==
    \A i \in DOMAIN calls :
        LET update == updates[calls[i].ev]
        IN  SourceProtected(update) =>
              /\ calls[i].api # "UploadGetFile"
              /\ IsSend(calls[i]) =>
                    Contains(calls[i].message,
                             ProtectionMarker(ChanInfo(update.channelID).Title))

\* C6 witness: a photo message of a protected channel was sent on as text.
C6_Witness ==
    \E i \in DOMAIN calls :
        /\ SourceProtected(updates[calls[i].ev])
        /\ updates[calls[i].ev].Media = "photo"
        /\ IsSend(calls[i]) /\ calls[i].ok

\* C10: after a failed download, upload or media send for a message, the handler
\* still sends the message as text.
C10_FallbackToText ==
    \A i \in DOMAIN calls :
        (IsRelayCall(calls[i]) /\ ~calls[i].ok /\ Handled(calls[i].ev))
        => \E j \in DOMAIN calls :
              /\ j > i
              /\ calls[j].ev = calls[i].ev
              /\ calls[j].api = "MessagesSendMessage"

\* C10 (amended): a failed download, upload or media send is the handler's last
\* backend call for that message: the handler returns, and nothing was sent to
\* the target for the message, neither the media nor a text-only fallback.
C10_RelayFailureDrops ==
    \A i \in DOMAIN calls :
        (IsRelayCall(calls[i]) /\ ~calls[i].ok)
        => /\ Handled(calls[i].ev)
           /\ \A j \in DOMAIN calls :
                 calls[j].ev = calls[i].ev =>
                    /\ j <= i
                    /\ ~(IsSend(calls[j]) /\ calls[j].ok)

\* C10 witness: an upload failed after a download succeeded, and a later update
\* was handled.
C10_Witness ==
    \E i \in DOMAIN calls :
        /\ calls[i].api = "UploadSaveFilePart" /\ ~calls[i].ok
        /\ calls[i].ev < Len(updates)
        /\ h.pc = "idle"

\* the candidates of an answer that match the request: the users with the
\* requested handle, the channels of the answer
Candidates ==
    IF resolved.op = "resolveUser"
    THEN {i \in DOMAIN resolved.answer.Users :
            /\ resolved.answer.Users[i].isUser
            /\ resolved.answer.Users[i].Username = resolved.request.Username}
    ELSE {i \in DOMAIN resolved.answer.Chats :
            /\ resolved.answer.Chats[i].isChannel
            /\ resolved.answer.Chats[i].Username = TrimPrefix(resolved.request.Username, "@")}

Candidate(i) ==
    IF resolved.op = "resolveUser" THEN resolved.answer.Users[i] ELSE resolved.answer.Chats[i]

\* a handle was resolved and the answer holds two distinct identities that
\* match it
AmbiguousAnswer ==
    /\ resolved.called
    /\ resolved.asked
    /\ resolved.answer.err = "nil"
    /\ \E i, j \in Candidates : Candidate(i).ID # Candidate(j).ID

\* C5, as the claim states it: when the answer for a handle holds two distinct
\* identities that match the handle, the resolution fails and returns none of
\* the candidates.
C5_AmbiguousRejected ==
    AmbiguousAnswer => lastErr # "nil" /\ resolved.ID = 0

\* C5, amended: when the answer for a handle holds two distinct identities
\* that match the handle, the resolution succeeds and returns the id and
\* access hash of the first of them in the order of the answer.
C5_FirstMatchReturned ==
    AmbiguousAnswer =>
        \E i \in Candidates :
            /\ \A j \in Candidates : i <= j
            /\ lastErr = "nil"
            /\ resolved.ID = Candidate(i).ID
            /\ resolved.AccessHash = Candidate(i).AccessHash

C5_Witness ==
    /\ AmbiguousAnswer
    /\ resolved.op = "resolveUser"
    /\ Len(resolved.answer.Users) = 2
    /\ resolved.ID = resolved.answer.Users[1].ID
    /\ resolved.ID # resolved.answer.Users[2].ID

\* the page requests of the crawl of channel g, as positions in the history
Searches(g) ==
    {i \in DOMAIN crawlLog : crawlLog[i].api = "MessagesSearch" /\ crawlLog[i].g = g}

\* C7: a page request for a channel is issued only when every earlier page
\* request for that channel was answered with a full page; so after a page
\* with fewer items than the page size no further page is requested.
C7_ShortPageEndsPaging ==
    \A g \in 1..Len(groups) : \A i, j \in Searches(g) :
        i < j => crawlLog[i].ok /\ crawlLog[i].n = PageSize

C7_Witness ==
    \E g \in 1..Len(groups) : \E i, j \in Searches(g) :
        /\ i < j
        /\ crawlLog[j].ok
        /\ crawlLog[j].n > 0
        /\ crawlLog[j].n < PageSize
        /\ groupIdx > g

\* the channel the backend resolves group g to
ChannelOf(g) ==
    resolveChannel(groups[g], Directory(TrimPrefix(groups[g].Username, "@"))).ID

\* the crawl of channel g failed: the resolution, the channel info or a page
FailedAt(g) ==
    {i \in DOMAIN crawlLog :
        /\ crawlLog[i].g = g
        /\ ~crawlLog[i].ok
        /\ crawlLog[i].api \in {"ContactsResolveUsername", "ChannelsGetChannels", "MessagesSearch"}}

\* the crawl of channel g was started
Crawled(g) == \E i \in DOMAIN crawlLog : crawlLog[i].g = g

\* the messages of the pages read from channel g
PagesRead(g) ==
    UNION {{Page(ChannelOf(g), crawlLog[i].arg)[k] : k \in 1..crawlLog[i].n} :
                i \in {s \in Searches(g) : crawlLog[s].ok}}

MessagesRead(g) == {m \in PagesRead(g) : m.isMessage}

\* message m of channel g is among the message records of the crawl
Recorded(g, m) ==
    \E k \in DOMAIN allMessages :
        /\ allMessages[k].MessageID = m.ID
        /\ allMessages[k].ChannelTitle = Backend(ChannelOf(g)).Title

\* the metadata record of channel g is among the metadata records
Described(g) ==
    \E k \in DOMAIN allMetadata : allMetadata[k].ChannelTitle = Backend(ChannelOf(g)).Title

\* C8: when the crawl of a channel failed, the run ends only after every
\* channel of the list was crawled, and the messages and the metadata read
\* from the other channels that did not fail are in the result.
C8_FailureContained ==
    \A f \in 1..Len(groups) :
        FailedAt(f) # {} =>
            /\ cpc = "done" => \A g \in 1..Len(groups) : Crawled(g)
            /\ \A g \in 1..(groupIdx - 1) :
                  FailedAt(g) = {} /\ MessagesRead(g) # {} =>
                      /\ \A m \in MessagesRead(g) : Recorded(g, m)
                      /\ Described(g)

C8_Witness ==
    /\ cpc = "done"
    /\ \E e, f, g \in 1..Len(groups) :
        /\ e < f
        /\ f < g
        /\ FailedAt(f) # {}
        /\ MessagesRead(e) # {}
        /\ \A m \in MessagesRead(e) : Recorded(e, m)
        /\ MessagesRead(g) # {}
        /\ \A m \in MessagesRead(g) : Recorded(g, m)

\* a page request of channel g failed after a page with messages was read
PageFailedAfterPages(g) ==
    /\ groupIdx > g
    /\ MessagesRead(g) # {}
    /\ \E j \in Searches(g) : ~crawlLog[j].ok

\* C9, as the claim states it: when a page request of a channel fails after
\* earlier pages were read, the messages of those pages are among the message
\* records of the crawl.
C9_PartialPagesKept ==
    \A g \in 1..Len(groups) :
        PageFailedAfterPages(g) => \A m \in MessagesRead(g) : Recorded(g, m)

\* C9, amended: when a page request of a channel fails after earlier pages
\* were read, none of the messages of those pages is among the message
\* records of the crawl, and the channel has no metadata record.
C9_FailedChannelDropped ==
    \A g \in 1..Len(groups) :
        PageFailedAfterPages(g) =>
            /\ \A m \in MessagesRead(g) : ~Recorded(g, m)
            /\ ~Described(g)

C9_Witness ==
    /\ cpc = "done"
    /\ allMessages # <<>>
    /\ \E g \in 1..Len(groups) :
        /\ PageFailedAfterPages(g)
        /\ \E i, j \in Searches(g) : i < j /\ crawlLog[i].n = PageSize /\ ~crawlLog[j].ok

\* the calls of api for channel g that failed
Failures(g, api) ==
    {i \in DOMAIN crawlLog : crawlLog[i].g = g /\ crawlLog[i].api = api /\ ~crawlLog[i].ok}

\* the metadata records of channel g
MetadataOf(g) ==
    {k \in DOMAIN allMetadata : allMetadata[k].ChannelTitle = Backend(ChannelOf(g)).Title}

\* C11, as the claim states it: when a metadata fetch of a channel failed (the
\* channel info, the member count or the admin list), the message search of
\* the channel is still run.
C11_MetadataBestEffort ==
    \A g \in 1..Len(groups) :
        /\ groupIdx > g
        /\ \/ Failures(g, "ChannelsGetChannels") # {}
           \/ Failures(g, "ChannelsGetFullChannel") # {}
           \/ Failures(g, "ChannelsGetParticipants") # {}
        => Searches(g) # {}

\* C11, amended: a failed member count or admin list fetch does not end the
\* crawl of the channel: the message search is still run, and the metadata
\* record of the channel has member count 0 (no admins) for the fetch that
\* failed.  A failed channel info fetch ends the crawl of the channel: the
\* search is not run and the channel has no record.
C11_CountAndAdminsBestEffort ==
    \A g \in 1..Len(groups) :
        groupIdx > g =>
            /\ Failures(g, "ChannelsGetFullChannel") # {} =>
                  /\ Searches(g) # {}
                  /\ \A k \in MetadataOf(g) : allMetadata[k].MemberCount = 0
            /\ Failures(g, "ChannelsGetParticipants") # {} =>
                  /\ Searches(g) # {}
                  /\ \A k \in MetadataOf(g) : allMetadata[k].ChannelAdmins = <<>>
            /\ Failures(g, "ChannelsGetChannels") # {} =>
                  /\ Searches(g) = {}
                  /\ MetadataOf(g) = {}

C11_Witness ==
    \E g \in 1..Len(groups) :
        /\ groupIdx > g
        /\ Failures(g, "ChannelsGetFullChannel") # {}
        /\ Failures(g, "ChannelsGetParticipants") = {}
        /\ \E k \in MetadataOf(g) :
            /\ allMetadata[k].MemberCount = 0
            /\ allMetadata[k].ChannelAdmins # <<>>
            /\ allMetadata[k].ChannelTitle = "Tech"

\* the entries of a list that name a channel: by id or by handle
Named(entries) ==
    Cardinality({i \in DOMAIN entries : entries[i].ID # 0 \/ entries[i].Username # <<>>})

\* C12: runMonitor starts the monitor only with at least one resolved source
\* and one resolved target; when none of the sources (none of the targets)
\* resolved it returns an error and starts nothing.  An entry whose handle
\* did not resolve is not among the resolved ids.
C12_NoStartWithoutEndpoints ==
    /\ rm.started # "none" =>
          /\ Len(rm.sourceIDs) > 0
          /\ Len(rm.targetIDs) > 0
          /\ rm.targetChannelID = rm.targetIDs[1]
          /\ rm.err = "nil"
    /\ rm.pc \in {"targets", "users", "monitoring"} =>
          Len(rm.sourceIDs) =
              Named(rm.cfg.SourceChannels) + Named(rm.cfg.SourceGroups) - rm.warnings.sources
    /\ rm.pc \in {"users", "monitoring"} =>
          Len(rm.targetIDs) = Named(rm.cfg.TargetChannels) - rm.warnings.targets
    /\ rm.pc \notin {"idle", "sources"} /\ Len(rm.sourceIDs) = 0 =>
          rm.pc = "returned" /\ rm.err # "nil" /\ rm.started = "none"
    /\ rm.pc \notin {"idle", "sources", "targets"} /\ Len(rm.targetIDs) = 0 =>
          rm.pc = "returned" /\ rm.err # "nil" /\ rm.started = "none"

C12_Witness ==
    /\ rm.pc = "returned"
    /\ rm.err = "no valid target channels"
    /\ rm.started = "none"
    /\ Len(rm.sourceIDs) > 0
    /\ Len(rm.cfg.TargetChannels) = 2
    /\ rm.warnings.targets = 1

C15_UnmonitoredNoEffect ==
    /\ \A i \in DOMAIN calls : updates[calls[i].ev].channelID \in sourceChannelIDs
    /\ \A ev \in DOMAIN updates :
          updates[ev].channelID \notin sourceChannelIDs =>
              /\ ev = Len(updates) => h = HandlerIdle
              /\ messages = <<>>

C15_Witness ==
    /\ Len(updates) = 2
    /\ updates[1].channelID \notin sourceChannelIDs
    /\ updates[1].kind = "message"
    /\ updates[1].peer = "channel"
    /\ \E i \in DOMAIN calls : calls[i].ev = 2 /\ IsSend(calls[i])

\* the calls issued for update number ev
CallsOf(ev) == {i \in DOMAIN calls : calls[i].ev = ev}

\* C16: under MonitorAndForward, a message of a monitored channel that was
\* handled without a failing backend call was sent to the target channel; the
\* body of every send for it is the original body followed by "Forwarded
\* from: <title>" when the source is not protected and by "[Protected Content]
\* Originally posted in: <title>" when it is (followed, for a protected photo,
\* by the photo notice), <title> being the title of the source channel.
C16_ForwardedWithAttribution ==
    mode = "MonitorAndForward" =>
        \A ev \in DOMAIN updates :
            LET update == updates[ev]
                info == ChanInfo(update.channelID)
                body == update.Message \o
                            (IF info.Noforwards THEN ProtectedContent ELSE ForwardedFrom) \o
                            info.Title
            IN (/\ Monitored(update)
                /\ Handled(ev)
                /\ \A i \in CallsOf(ev) : calls[i].ok)
               => /\ \E i \in CallsOf(ev) : IsSend(calls[i])
                  /\ \A i \in CallsOf(ev) :
                        IsSend(calls[i]) =>
                            /\ calls[i].peer = targetChannelID
                            /\ calls[i].message \in {body, body \o PhotoNotice}

\* the messages the searched user has in the channel of group g
MessagesIn(g) ==
    {HistoryEntry(p) : p \in {q \in 1..Backend(ChannelOf(g)).N : HistoryEntry(q).isMessage}}

\* the message records of channel g
RecordsOf(g) ==
    {k \in DOMAIN allMessages : allMessages[k].ChannelTitle = Backend(ChannelOf(g)).Title}

\* every call made for channel g succeeded
AllFetched(g) == \A i \in DOMAIN crawlLog : crawlLog[i].g = g => crawlLog[i].ok

C18_EmptyRuleSetForwards ==
    (verdict.called /\ fmFilters = <<>>) => verdict.process /\ verdict.action = "forward"

C18_Witness ==
    /\ verdict.called
    /\ fmFilters = <<>>
    /\ message_filters # <<>>
    /\ verdict.message = spam
    /\ verdict.action = "forward"

\* a pattern regexp.Compile rejects: one with an opening parenthesis that is
\* never closed
Uncompilable(pattern) ==
    \E i \in 1..Len(pattern) :
        pattern[i] = "(" /\ \A j \in (i + 1)..Len(pattern) : pattern[j] # ")"

\* C19: adding a regex rule whose pattern does not compile returns an error
\* and leaves the table as it is; so no stored regex row and no loaded regex
\* filter has such a pattern.
C19_InvalidRegexRejected ==
    /\ \A in \in AddInputs :
          (in[1] = "regex" /\ Uncompilable(in[2])) =>
              LET r == runAddFilter(message_filters, in[1], in[2], in[3], in[4])
              IN r.table = message_filters /\ r.err = "invalid regex pattern"
    /\ \A k \in DOMAIN message_filters :
          message_filters[k].Type = "regex" => ~Uncompilable(message_filters[k].Pattern)
    /\ \A k \in DOMAIN fmFilters :
          fmFilters[k].kind = "regex" => ~Uncompilable(fmFilters[k].Pattern)

C19_Witness ==
    /\ lastErr = "invalid regex pattern"
    /\ Len(message_filters) = 1
    /\ message_filters[1].Type = "regex"

\* C20: adding a rule whose kind is none of keyword, regex, user, channel and
\* length returns an error and leaves the table as it is; so no stored row
\* has another kind.
C20_UnknownKindRejected ==
    LET Kinds == {"keyword", "regex", "user", "channel", "length"}
    IN /\ \A in \in AddInputs :
             in[1] \notin Kinds =>
                 LET r == runAddFilter(message_filters, in[1], in[2], in[3], in[4])
                 IN r.table = message_filters /\ r.err = "invalid filter type"
       /\ \A k \in DOMAIN message_filters : message_filters[k].Type \in Kinds

C20_Witness ==
    /\ lastErr = "invalid filter type"
    /\ Len(message_filters) = 1

\* update number ev was handed to the handler and passed its entry checks
Entered(ev) ==
    \/ \E i \in DOMAIN calls : calls[i].ev = ev /\ calls[i].api = "ChannelsGetFullChannel"
    \/ (ev = Len(updates) /\ h.pc = "getFull")

\* C21: a failing backend call of the handler (channel info, download, upload or
\* send) is the handler's last call for that update and nothing is sent for it
\* afterwards; the monitor reports no error and is still listening unless the
\* user cancelled it; and every later update of a monitored channel is taken
\* up by the handler.
C21_EventErrorContained ==
    LET failed == {i \in DOMAIN calls : ~calls[i].ok}
    IN failed # {} =>
          /\ \A i \in failed :
                /\ i = Len(calls) \/ calls[i + 1].ev > calls[i].ev
                /\ Handled(calls[i].ev)
                /\ \A ev \in DOMAIN updates :
                      (ev > calls[i].ev /\ Monitored(updates[ev])) => Entered(ev)
          /\ lastErr = "nil"
          /\ monState \in {"Listening", "Returned"}
          /\ (monState = "Listening" /\ h.pc = "idle" /\ Len(updates) < MaxEvents)
                => ENABLED Deliver

\* C21 witness: the channel info call failed for one update, and the next
\* update, of a monitored channel, was sent to its end while the monitor listens.
C21_Witness ==
    /\ monState = "Listening"
    /\ Len(updates) = 2
    /\ h.pc = "idle"
    /\ \E i \in DOMAIN calls :
          calls[i].ev = 1 /\ calls[i].api = "ChannelsGetFullChannel" /\ ~calls[i].ok
    /\ \E j \in DOMAIN calls : calls[j].ev = 2 /\ IsSend(calls[j]) /\ calls[j].ok

\* C22: in the crawl's log of backend calls and delays, the first entry of a
\* channel that is not the first one crawled is preceded by the 2-second
\* inter-channel delay, whatever the outcome of the channel before it.
C22_DelayBetweenChannels ==
    \A i \in DOMAIN crawlLog :
        (i > 1 /\ crawlLog[i].g # crawlLog[i - 1].g)
        => /\ crawlLog[i - 1].api = "Sleep"
           /\ crawlLog[i - 1].arg = ChannelSleep

\* the export wrote a file of that name holding those records
Wrote(name, records) ==
    \E k \in DOMAIN ex.files : ex.files[k] = File(name, records)

\* the extension the flags ask for
Ext == IF ex.exportJSON THEN json ELSE csv

\* C23: when the search ran with --csv or --json, found at least one message
\* and no file failed to be created, the finished export has written exactly
\* two files: <username>_messages.<ext> with all messages found and
\* <username>_channel_metadata.<ext> with the channel metadata.
C23_TwoFilesExported ==
    (/\ ex.pc = "done"
     /\ ex.exportJSON \/ ex.exportCSV
     /\ Len(ex.allMessages) > 0
     /\ ex.warnings = 0)
    => /\ Len(ex.files) = 2
       /\ Wrote(ex.username \o <<"_">> \o messagesType \o <<".">> \o Ext, ex.allMessages)
       /\ Wrote(ex.username \o <<"_">> \o channelMetadataType \o <<".">> \o Ext,
                ex.allMetadata)

\* the search was asked for by numeric id alone
ByIDOnly == run.request.Username = <<>> /\ run.request.ID # 0

\* the membership scan before the crawl is over
ScanOver == run.pc \in {"crawl", "done"}

\* the participants scans logged in a phase of the run ("scan": the membership
\* scan of the candidate channels; "crawl": the scan repeated per channel)
ScansOf(phases) ==
    {i \in DOMAIN run.log :
        run.log[i].api = "ChannelsGetParticipants" /\ run.log[i].phase \in phases}

\* the channel the backend has for a group of the list (id 0 when it has none)
BackendChannel(group) ==
    scanChannel(group, Directory(TrimPrefix(group.Username, "@"))).ID

\* no candidate channel has the searched id among its members
NoneContains ==
    \A g \in DOMAIN run.groups :
        ~FindMember(Members(BackendChannel(run.groups[g])), run.request.ID).found

\* the scan stops at the first channel in which the id is found
StopsAtFirstFound ==
    \A i, j \in ScansOf({"scan"}) : i < j => ~run.log[i].found

\* the crawl so far ran without error under the numeric id, with the id as the
\* access token of every message search, and a finished crawl has searched
\* every channel the backend has
CrawledUnderPlaceholder ==
    /\ lastErr = "nil"
    /\ run.pc # "failed"
    /\ \A i \in DOMAIN run.log :
          run.log[i].api = "MessagesSearch" =>
             /\ run.log[i].UserID = run.request.ID
             /\ run.log[i].AccessHash = run.request.ID
    /\ run.pc = "done" =>
          \A g \in DOMAIN run.groups :
             BackendChannel(run.groups[g]) # 0 =>
                \E i \in DOMAIN run.log :
                   run.log[i].api = "MessagesSearch" /\ run.log[i].g = g

WalkOrders ==
    LET on == {i \in DOMAIN message_filters : message_filters[i].enabled}
    IN {q \in [1..Cardinality(on) -> on] : \A a, b \in DOMAIN q : a # b => q[a] # q[b]}

\* the order is non-increasing in priority
Descending(q) ==
    \A a, b \in DOMAIN q :
        a < b => message_filters[q[a]].Priority >= message_filters[q[b]].Priority

\* rows of equal priority come in their creation order
StableOnTies(q) ==
    \A a, b \in DOMAIN q :
        (a < b /\ message_filters[q[a]].Priority = message_filters[q[b]].Priority)
        => message_filters[q[a]].ID < message_filters[q[b]].ID

\* the filters evaluate walks are those of the rows in order q
Walks(q) == fmFilters = BuildFilters([k \in DOMAIN q |-> message_filters[q[k]]])

\* C25: the rules evaluate walks are the enabled rules in an order that is
\* non-increasing in priority and keeps rules of equal priority in their
\* creation order.
C25_PriorityOrderStable ==
    fmLoaded => \E q \in WalkOrders : Descending(q) /\ StableOnTies(q) /\ Walks(q)

\* C25 (amended): the rules evaluate walks are the enabled rules in an order
\* that is non-increasing in priority.
C25_PriorityOrder ==
    fmLoaded => \E q \in WalkOrders : Descending(q) /\ Walks(q)

\* C25 witness: two enabled rules with different actions, the one created
\* later having the higher priority, were loaded, and the later one is walked
\* first.
C25_Witness ==
    /\ fmLoaded
    /\ Len(message_filters) = 2
    /\ message_filters[1].enabled /\ message_filters[2].enabled
    /\ message_filters[1].Priority < message_filters[2].Priority
    /\ message_filters[1].Action # message_filters[2].Action
    /\ Len(fmFilters) = 2
    /\ fmFilters[1].Action = message_filters[2].Action

\* C26: the monitor listens, and updates are handled, only in a run whose
\* session was reported authorized; a run whose authentication failed has
\* returned the authentication error, handles no update and issues no call.
C26_AuthenticationGate ==
    /\ (monState = "Listening" \/ updates # <<>> \/ calls # <<>>) => lastErr = "nil"
    /\ lastErr = "error authenticating" =>
          /\ monState = "AuthFailed"
          /\ updates = <<>>
          /\ calls = <<>>
          /\ h = HandlerIdle
          /\ ~ENABLED Deliver

\* C26 witness: the authentication failed and the monitor returned the error.
C26_Witness ==
    /\ monState = "AuthFailed"
    /\ lastErr = "error authenticating"

\* the number of entries the backend holds for the user in the channel of g
HeldIn(g) == Backend(ChannelOf(g)).N

\* searchMessages ran for channel g and every page request of it succeeded
SearchedOK(g) == Searches(g) # {} /\ \A i \in Searches(g) : crawlLog[i].ok

\* C27: for a channel whose crawl is over and every page request of which
\* succeeded, with N entries held by the backend, searchMessages issued exactly
\* N \div PageSize + 1 page requests, at the offsets 0, PageSize, 2 * PageSize,
\* ... in this order, and every message among the N entries is returned exactly
\* once and nothing else is.
C27_PagingComplete ==
    \A g \in 1..Len(groups) :
        (groupIdx > g /\ SearchedOK(g)) =>
            /\ Cardinality(Searches(g)) = (HeldIn(g) \div PageSize) + 1
            /\ {crawlLog[i].arg : i \in Searches(g)} =
                  {k * PageSize : k \in 0..(HeldIn(g) \div PageSize)}
            /\ \A i, j \in Searches(g) : i < j => crawlLog[i].arg < crawlLog[j].arg
            /\ Cardinality(RecordsOf(g)) = Cardinality(MessagesIn(g))
            /\ \A m \in MessagesIn(g) :
                  Cardinality({k \in RecordsOf(g) : allMessages[k].MessageID = m.ID}) = 1

\* C27 witness: a channel holding a whole number of pages (two) was crawled
\* with three successful page requests, the last one answered with no entry.
C27_Witness ==
    \E g \in 1..Len(groups) :
        /\ groupIdx > g
        /\ SearchedOK(g)
        /\ HeldIn(g) = 2 * PageSize
        /\ Cardinality(Searches(g)) = 3
        /\ \E i \in Searches(g) : crawlLog[i].arg = 2 * PageSize /\ crawlLog[i].n = 0
        /\ Cardinality(RecordsOf(g)) = Cardinality(MessagesIn(g))

\* call number i of the log follows, for the same update, a successful call
\* to api
Follows(i, api) ==
    /\ i > 1
    /\ calls[i - 1].ev = calls[i].ev
    /\ calls[i - 1].api = api
    /\ calls[i - 1].ok

\* C28: for a photo of S bytes, with k = S \div 524288 + 1: a download request
\* asks for 524288 bytes, the first of a message at offset 0 and each further
\* one 524288 bytes after a request that succeeded, never beyond S, so at most
\* k are issued; the first upload follows the successful k-th download and
\* carries part 0, each further upload follows a successful upload with the
\* same file id and carries the next part, part i being the bytes of the i-th
\* chunk; and the media send follows the successful upload of part k - 1,
\* names that file id and declares k parts.
C28_ChunkedRelay ==
    \A i \in DOMAIN calls :
        LET c == calls[i]
            S == updates[c.ev].size
            k == (S \div ChunkLimit) + 1
        IN /\ c.api = "UploadGetFile" =>
                /\ c.limit = ChunkLimit
                /\ c.offset <= S
                /\ IF Follows(i, "UploadGetFile")
                   THEN c.offset = calls[i - 1].offset + ChunkLimit
                   ELSE c.offset = 0 /\ Follows(i, "ChannelsGetFullChannel")
           /\ c.api = "UploadSaveFilePart" =>
                /\ c.filePart < k
                /\ c.bytes.offset = c.filePart * ChunkLimit
                /\ c.bytes.len =
                      (IF c.filePart < k - 1 THEN ChunkLimit ELSE S - c.filePart * ChunkLimit)
                /\ IF Follows(i, "UploadSaveFilePart")
                   THEN /\ c.filePart = calls[i - 1].filePart + 1
                        /\ c.fileID = calls[i - 1].fileID
                   ELSE /\ c.filePart = 0
                        /\ Follows(i, "UploadGetFile")
                        /\ calls[i - 1].offset = (k - 1) * ChunkLimit
           /\ c.api = "MessagesSendMedia" =>
                /\ Follows(i, "UploadSaveFilePart")
                /\ calls[i - 1].filePart = k - 1
                /\ c.fileID = calls[i - 1].fileID
                /\ c.parts = k

\* C28 witness: a photo of more than one chunk (600000 bytes) was downloaded,
\* uploaded in two parts and sent.
C28_Witness ==
    \E i \in DOMAIN calls :
        /\ calls[i].api = "MessagesSendMedia"
        /\ calls[i].ok
        /\ calls[i].parts = 2
        /\ updates[calls[i].ev].size = 600000
        /\ h.pc = "idle"

\* C29: for a message of a monitored channel that the handler has finished
\* without a failing backend call, whatever its media and whether or not the
\* source is protected, exactly one send (text or media) was issued.
C29_ExactlyOneSend ==
    \A ev \in DOMAIN updates :
        (/\ Monitored(updates[ev])
         /\ Handled(ev)
         /\ \A i \in CallsOf(ev) : calls[i].ok)
        => Cardinality({i \in CallsOf(ev) : IsSend(calls[i])}) = 1

\* C30: every send of a monitor handler, under MonitorAndForward and under
\* MonitorChannels, is addressed to the target channel and not to the channel
\* the message arrived on; the target being no monitored source, no send goes
\* to a monitored channel.
C30_SentToTarget ==
    \A i \in DOMAIN calls :
        IsSend(calls[i]) =>
            /\ calls[i].peer = targetChannelID
            /\ calls[i].peer # updates[calls[i].ev].channelID
            /\ calls[i].peer \notin sourceChannelIDs

====
